---- MODULE Spec2Model ----
(***************************************************************************)
(* A model of GenetiGo: the generic genetic-algorithm solver (ga/ga.go),   *)
(* the batch planner (internal/batching) and the NEAT genome with its     *)
(* innovation registry (neat/neat.go).                                    *)
(*                                                                         *)
(* Six specifications share the module:                                   *)
(*   SpecBatch       - BuildBatchesList applied to every input of a word  *)
(*   Spec            - one NewSolver + Solve run of ga.Solver, goroutine  *)
(*                     by goroutine, over Members that are Networks       *)
(*   SpecNeat        - NEAT genomes mutated concurrently through the      *)
(*                     registry                                           *)
(*   SpecNeatFitness - the fitness goroutines of a generation on the      *)
(*                     registry                                           *)
(*   SpecCrossover   - Crossover applied to pairs of grown genomes        *)
(*   SpecFeed        - Feed applied, twice, to a genome                   *)
(* Each specification keeps the variables of the others at rest.          *)
(*                                                                         *)
(* uint32 values are modelled with a word of WordBits bits (arithmetic is *)
(* taken modulo 2^WordBits wherever the code's is modulo 2^32).           *)
(***************************************************************************)
EXTENDS Integers, Sequences, FiniteSets, TLC

\* ------------------------------------------------------------------ bounds

\* Width of the model's unsigned word (the code's uint32).
WordBits == 4

WordMod == 2 ^ WordBits

WordMax == WordMod - 1

\* uint32 arithmetic: the value wraps around modulo the word.
U32(x) == x % WordMod

Max2(a, b) == IF a >= b THEN a ELSE b

RECURSIVE SumSeq(_)
SumSeq(s) == IF s = <<>> THEN 0 ELSE s[1] + SumSeq(Tail(s))

\* ------------------------------------------------- internal/batching

VARIABLES bb_pc, bb_nElements, bb_nBatches, bb_out

batchVars == <<bb_pc, bb_nElements, bb_nBatches, bb_out>>

\* type BatchInfo struct { Start, End uint32 }
BatchInfo(start, end) == [Start |-> start, End |-> end]

\* The loop of BuildBatchesList: `for range nBatches`, k iterations left.
RECURSIVE BuildBatchesLoop(_, _, _, _, _, _)
BuildBatchesLoop(k, nElements, batchSize, start, end, batches) ==
    IF k = 0 THEN batches
    ELSE LET e == IF end > nElements THEN nElements ELSE end
         IN  BuildBatchesLoop(k - 1, nElements, batchSize,
                              e, U32(e + batchSize),
                              Append(batches, BatchInfo(start, e)))

\* "Handle uneven divisions": the last batch is stretched to nElements.
FixLastBatch(batches, nBatches, nElements) ==
    IF batches[nBatches].End # nElements
    THEN [batches EXCEPT ![nBatches].End = nElements]
    ELSE batches

\* The same function without the stretch of the last batch.
BuildBatchesListNoRemainder(nElements, nBatches) ==
    IF nElements = 0 THEN <<>>
    ELSE LET batchSize == nElements \div nBatches
         IN  BuildBatchesLoop(nBatches, nElements, batchSize, 0, batchSize, <<>>)

\* BuildBatchesList(nElements, nBatches), for nBatches >= 1 or nElements = 0
\* (nElements / 0 is a run-time panic, see BatchesPanics).
BuildBatchesList(nElements, nBatches) ==
    IF nElements = 0 THEN <<>>
    ELSE LET batchSize == nElements \div nBatches
         IN  FixLastBatch(
                 BuildBatchesLoop(nBatches, nElements, batchSize, 0, batchSize, <<>>),
                 nBatches, nElements)

\* Integer division by zero: reached only after the nElements = 0 return.
BatchesPanics(nElements, nBatches) == nElements # 0 /\ nBatches = 0

InitBatch ==
    /\ bb_pc = "call"
    /\ bb_nElements \in 0..WordMax
    /\ bb_nBatches \in 0..WordMax
    /\ bb_out = <<>>

BatchReturn ==
    /\ bb_pc = "call"
    /\ ~BatchesPanics(bb_nElements, bb_nBatches)
    /\ bb_out' = BuildBatchesList(bb_nElements, bb_nBatches)
    /\ bb_pc' = "done"
    /\ UNCHANGED <<bb_nElements, bb_nBatches>>

BatchPanic ==
    /\ bb_pc = "call"
    /\ BatchesPanics(bb_nElements, bb_nBatches)
    /\ bb_pc' = "panic"
    /\ UNCHANGED <<bb_nElements, bb_nBatches, bb_out>>

\* The batch planner is not being exercised on its own.
BatchIdle ==
    /\ bb_pc = "idle"
    /\ bb_nElements = 0
    /\ bb_nBatches = 0
    /\ bb_out = <<>>

\* --------------------------------------------------------------- ga/ga.go

\* Largest PopulationSize, MaxGenerations explored, and the cap on the number
\* of loop iterations of Solve that are followed.
MaxPop == 3

MaxGen == 2

MaxIterations == 3

VARIABLES buildIntBits, args, spc, population, options, generationNo, member,
          batches, fitnessSum, distI, fitI, fitStage, nextPopulation, breedI,
          returned, iterations, writers, calls, writes

\* Bookkeeping of a run, read by no action: the calls made in the current
\* generation (ComputeAndSetFitnessScore per slot, Crossover,
\* SetSurvivalChance, and the draws "rand.Float32() < MutationChance" that
\* decide each whether Mutate is called), and the writes the goroutines of
\* the current phase made to members.
ghostVars == <<calls, writes>>

\* No call yet in a generation of n members.
NoCalls(n) == [fitness |-> [i \in 1..n |-> 0], crossover |-> 0, mutateDraws |-> 0, chance |-> 0]

solverVars == <<buildIntBits, args, spc, population, options, generationNo, member,
                batches, fitnessSum, distI, fitI, fitStage, nextPopulation, breedI,
                returned, iterations, writers, ghostVars>>

\* Members are pointers: identifiers into `member`, 0 is nil.
MemberIds == 1..(2 * MaxPop)

\* A survival chance is kept as an exact fraction (float32 rounding is not modelled).
Frac(n, d) == [num |-> n, den |-> d]

\* MemberData{FitnessScore: 0, SurvivalChance: 0}; `sorted` is the flag of
\* neat.Network, the Member of this repository, false in a new Network.
ZeroMember == [fitness |-> 0, chance |-> Frac(0, 1), sorted |-> FALSE]

ZeroOptions == [PopulationSize |-> 0, MaxGenerations |-> 0, NBatches |-> 0, Speciation |-> FALSE]

\* The scores ComputeAndSetFitnessScore may store (it is the Member's own code).
FitnessValues == {0, 1, WordMax}

\* Go's int is 32 or 64 bits wide, depending on the build: as wide as the
\* word, or twice as wide.
IntWidths == {WordBits, 2 * WordBits}

\* int(x) for an unsigned x, and a two's-complement int result of `bits` bits.
ToInt(x, bits) ==
    LET m == 2 ^ bits
        v == x % m
    IN  IF 2 * v >= m THEN v - m ELSE v

\* The comparison of getBestMember: int(a.GetFitnessScore()) - int(b.GetFitnessScore()).
CmpFitness(a, b) ==
    ToInt(ToInt(member[a].fitness, buildIntBits) - ToInt(member[b].fitness, buildIntBits),
          buildIntBits)

\* slices.MaxFunc: m := x[0]; for i := 1..: if cmp(x[i], m) > 0 { m = x[i] }.
RECURSIVE MaxFunc(_, _, _)
MaxFunc(x, i, m) ==
    IF i > Len(x) THEN m
    ELSE MaxFunc(x, i + 1, IF CmpFitness(x[i], m) > 0 THEN x[i] ELSE m)

getBestMember == MaxFunc(population, 2, population[1])

\* The two population-size checks of NewSolver.
NewSolverPanicsNoLengthCheck(members, opts) == opts.PopulationSize = 0

NewSolverPanics(members, opts) ==
    \/ opts.PopulationSize = 0
    \/ U32(Len(members)) # opts.PopulationSize

\* The batches limiting without its upper limit.
ClampBatchesNoUpperLimit(opts) ==
    [opts EXCEPT !.NBatches = IF opts.NBatches = 0 THEN 1 ELSE opts.NBatches]

\* "Batches limiting (min: 1; max: 1 for each single element of the population)"
ClampBatches(opts) ==
    LET nb == IF opts.NBatches = 0 THEN 1 ELSE opts.NBatches
    IN  [opts EXCEPT !.NBatches = IF nb > opts.PopulationSize THEN opts.PopulationSize ELSE nb]

\* pickRandomMember with randValue = rn/rd on reaching population[k].
RECURSIVE PickScan(_, _, _)
PickScan(k, rn, rd) ==
    IF k > Len(population) THEN population[options.PopulationSize]
    ELSE LET c == member[population[k]].chance
         IN  IF rn * c.den < c.num * rd THEN population[k]
             ELSE PickScan(k + 1, rn * c.den - c.num * rd, rd * c.den)

\* rand.Float32() in [0, 1): every threshold of the scan is a multiple of
\* 1/d, d the denominator of the chances, so the draws j/d stand for all.
RandDen == member[population[1]].chance.den

RandNums == 0..(RandDen - 1)

pickRandomMember(j) == PickScan(1, j, RandDen)

\* parent1.Crossover(parent2): a newly allocated Member (its genes are the
\* Member's own business).
Crossover(parent1, parent2) == ZeroMember

\* The children one slot of a breeding goroutine can produce: parent1 and
\* parent2 are two draws of pickRandomMember.
Children ==
    {Crossover(pickRandomMember(j1), pickRandomMember(j2)) : j1 \in RandNums, j2 \in RandNums}

\* The members a draw of pickRandomMember can return.
Parents == {pickRandomMember(j) : j \in RandNums}

\* The Members are Networks: neat.NewSolver, the only maker of a solver over
\* Networks, sets Speciation; a solver without it runs over Members of
\* another type, whose methods are not in this repository.
NetworkMembers == options.Speciation

\* Network.Distance and Network.Crossover sort the connections of both
\* genomes they are given that are not flagged sorted, and flag them.
Unsorted(ids) == {id \in ids : NetworkMembers /\ ~member[id].sorted}

\* The parents a Crossover of two draws of pickRandomMember can have to sort.
ParentsToSort == {Unsorted({parent1, parent2}) : parent1 \in Parents, parent2 \in Parents}

SortAll(mem, ids) ==
    [id \in MemberIds |-> IF id \in ids THEN [mem[id] EXCEPT !.sorted = TRUE] ELSE mem[id]]

\* The survival chance of the loop at "Compute the survival chance".
SurvivalChance(fitnessScore) ==
    IF fitnessSum # 0 THEN Frac(fitnessScore, fitnessSum)
    ELSE Frac(1, options.PopulationSize)

\* The address the allocator gives the child of slot i (0-based): one of the
\* cells the current population does not occupy.
ChildId(i) == IF population[1] = 1 THEN options.PopulationSize + i + 1 ELSE i + 1

NBatchesNow == Len(batches)

\* The members at the indices of the batch range of goroutine b
\* ("for i := b.Start; i < b.End; i++").
OwnMembers(b) == {population[i + 1] : i \in batches[b].Start..(batches[b].End - 1)}

\* The children goroutine b breeds.
OwnChildren(b) == {ChildId(i) : i \in batches[b].Start..(batches[b].End - 1)}

\* A write of goroutine `worker` of a phase to a field of member `target`,
\* logged by whose the member is: a member of the goroutine's own range, a
\* child it breeds, or a member of the range of another goroutine.
Write(phase, worker, target) ==
    [phase |-> phase,
     whose |-> IF target \in OwnMembers(worker) THEN "own"
               ELSE IF target \in OwnChildren(worker) THEN "child"
               ELSE "other"]

InitSolver ==
    /\ buildIntBits \in IntWidths
    /\ args \in [members : {[i \in 1..n |-> i] : n \in 0..(MaxPop + 1)},
                 options : [PopulationSize : 0..MaxPop,
                            MaxGenerations : 0..MaxGen,
                            NBatches : 0..(MaxPop + 1),
                            Speciation : BOOLEAN]]
    /\ spc = "new"
    /\ population = <<>>
    /\ options = ZeroOptions
    /\ generationNo = 0
    /\ member = [id \in MemberIds |-> ZeroMember]
    /\ batches = <<>>
    /\ fitnessSum = 0
    /\ distI = <<>>
    /\ fitI = <<>>
    /\ fitStage = <<>>
    /\ nextPopulation = <<>>
    /\ breedI = <<>>
    /\ returned = 0
    /\ iterations = 0
    /\ writers = <<>>
    /\ calls = NoCalls(0)
    /\ writes = {}

\* The solver is not in use.
SolverIdle ==
    /\ buildIntBits = 2 * WordBits
    /\ args = [members |-> <<>>, options |-> ZeroOptions]
    /\ spc = "idle"
    /\ population = <<>>
    /\ options = ZeroOptions
    /\ generationNo = 0
    /\ member = [id \in MemberIds |-> ZeroMember]
    /\ batches = <<>>
    /\ fitnessSum = 0
    /\ distI = <<>>
    /\ fitI = <<>>
    /\ fitStage = <<>>
    /\ nextPopulation = <<>>
    /\ breedI = <<>>
    /\ returned = 0
    /\ iterations = 0
    /\ writers = <<>>
    /\ calls = NoCalls(0)
    /\ writes = {}

NewSolver ==
    /\ spc = "new"
    /\ IF NewSolverPanics(args.members, args.options)
       THEN /\ spc' = "panic"
            /\ UNCHANGED <<population, options, generationNo>>
       ELSE /\ spc' = "constructed"
            /\ population' = args.members
            /\ options' = ClampBatches(args.options)
            /\ generationNo' = 1
    /\ UNCHANGED <<buildIntBits, args, member, batches, fitnessSum, distI, fitI, fitStage,
                   nextPopulation, breedI, returned, iterations, writers>>
    /\ UNCHANGED ghostVars

\* Solve, up to the loop: the list of batches is built once.
SolveBegin ==
    /\ spc = "constructed"
    /\ batches' = BuildBatchesList(options.PopulationSize, options.NBatches)
    /\ spc' = "loop"
    /\ UNCHANGED <<buildIntBits, args, population, options, generationNo, member, fitnessSum,
                   distI, fitI, fitStage, nextPopulation, breedI, returned, iterations, writers>>
    /\ UNCHANGED ghostVars

\* Top of the loop: the distance goroutines (with Speciation) and the fitness
\* goroutines are started, one per batch, on one WaitGroup.
SpawnFitness ==
    /\ spc = "loop"
    /\ iterations < MaxIterations
    /\ distI' = [b \in 1..NBatchesNow |->
                    IF options.Speciation THEN batches[b].Start ELSE batches[b].End]
    /\ fitI' = [b \in 1..NBatchesNow |-> batches[b].Start]
    /\ fitStage' = [b \in 1..NBatchesNow |-> "compute"]
    /\ fitnessSum' = 0
    /\ iterations' = iterations + 1
    /\ spc' = "wait1"
    /\ UNCHANGED <<buildIntBits, args, population, options, generationNo, member, batches,
                   nextPopulation, breedI, returned, writers>>
    /\ calls' = NoCalls(options.PopulationSize)
    /\ writes' = {}

\* A distance goroutine: population[i].Distance(population[j]) for every j.
DistanceStep(b) ==
    /\ spc = "wait1"
    /\ b <= NBatchesNow
    /\ distI[b] < batches[b].End
    /\ distI' = [distI EXCEPT ![b] = @ + 1]
    /\ LET others == {population[j] : j \in 1..Len(population)}
       IN  /\ member' = SortAll(member, others)
           /\ writes' = writes \cup {Write("distance", b, population[distI[b] + 1])}
                               \cup {Write("distance", b, id) : id \in Unsorted(others)}
    /\ UNCHANGED <<buildIntBits, args, spc, population, options, generationNo, batches,
                   fitnessSum, fitI, fitStage, nextPopulation, breedI, returned, iterations,
                   writers>>
    /\ UNCHANGED calls

\* A fitness goroutine: population[i].ComputeAndSetFitnessScore().
FitnessCompute(b) ==
    /\ spc = "wait1"
    /\ b <= NBatchesNow
    /\ fitI[b] < batches[b].End
    /\ fitStage[b] = "compute"
    /\ fitStage' = [fitStage EXCEPT ![b] = "add"]
    /\ calls' = [calls EXCEPT !.fitness[fitI[b] + 1] = @ + 1]
    /\ writes' = writes \cup {Write("fitness", b, population[fitI[b] + 1])}
    /\ UNCHANGED <<buildIntBits, args, spc, population, options, generationNo, batches,
                   fitnessSum, distI, fitI, nextPopulation, breedI, returned, iterations,
                   writers>>
    /\ \E f \in FitnessValues :
           member' = [member EXCEPT ![population[fitI[b] + 1]].fitness = f]

\* atomic.AddUint32(&fitnessSum, population[i].GetFitnessScore())
FitnessAdd(b) ==
    /\ spc = "wait1"
    /\ b <= NBatchesNow
    /\ fitI[b] < batches[b].End
    /\ fitStage[b] = "add"
    /\ fitnessSum' = U32(fitnessSum + member[population[fitI[b] + 1]].fitness)
    /\ fitI' = [fitI EXCEPT ![b] = @ + 1]
    /\ fitStage' = [fitStage EXCEPT ![b] = "compute"]
    /\ UNCHANGED <<buildIntBits, args, spc, population, options, generationNo, member, batches,
                   distI, nextPopulation, breedI, returned, iterations, writers>>
    /\ UNCHANGED ghostVars

\* wg.Wait() after the fitness goroutines were started.
WaitFitness ==
    /\ spc = "wait1"
    /\ \A b \in 1..NBatchesNow : distI[b] = batches[b].End /\ fitI[b] = batches[b].End
    /\ spc' = "check"
    /\ UNCHANGED <<buildIntBits, args, population, options, generationNo, member, batches,
                   fitnessSum, distI, fitI, fitStage, nextPopulation, breedI, returned,
                   iterations, writers>>
    /\ UNCHANGED ghostVars

\* "Return the best member at the last generation"
ReturnBest ==
    /\ spc = "check"
    /\ generationNo = options.MaxGenerations
    /\ returned' = getBestMember
    /\ spc' = "returned"
    /\ UNCHANGED <<buildIntBits, args, population, options, generationNo, member, batches,
                   fitnessSum, distI, fitI, fitStage, nextPopulation, breedI, iterations,
                   writers>>
    /\ UNCHANGED ghostVars

\* The survival chances assigned in the final generation too.
AssignSurvivalChancesAlways ==
    /\ spc = "check"
    /\ member' = [id \in MemberIds |->
                     IF \E i \in 1..Len(population) : population[i] = id
                     THEN [member[id] EXCEPT !.chance = SurvivalChance(member[id].fitness)]
                     ELSE member[id]]
    /\ spc' = "survived"
    /\ UNCHANGED <<buildIntBits, args, population, options, generationNo, batches, fitnessSum,
                   distI, fitI, fitStage, nextPopulation, breedI, returned, iterations, writers>>
    /\ calls' = [calls EXCEPT !.chance = @ + Len(population)]
    /\ UNCHANGED writes

\* "Compute the survival chance of each individual (serial)"
AssignSurvivalChances ==
    /\ spc = "check"
    /\ generationNo # options.MaxGenerations
    /\ member' = [id \in MemberIds |->
                     IF \E i \in 1..Len(population) : population[i] = id
                     THEN [member[id] EXCEPT !.chance = SurvivalChance(member[id].fitness)]
                     ELSE member[id]]
    /\ spc' = "survived"
    /\ UNCHANGED <<buildIntBits, args, population, options, generationNo, batches, fitnessSum,
                   distI, fitI, fitStage, nextPopulation, breedI, returned, iterations, writers>>
    /\ calls' = [calls EXCEPT !.chance = @ + Len(population)]
    /\ UNCHANGED writes

\* make([]M, PopulationSize) and the start of the breeding goroutines.
SpawnBreeders ==
    /\ spc = "survived"
    /\ nextPopulation' = [i \in 1..options.PopulationSize |-> 0]
    /\ writers' = [i \in 1..options.PopulationSize |-> <<>>]
    /\ breedI' = [b \in 1..NBatchesNow |-> batches[b].Start]
    /\ spc' = "wait2"
    /\ UNCHANGED <<buildIntBits, args, population, options, generationNo, member, batches,
                   fitnessSum, distI, fitI, fitStage, returned, iterations>>
    /\ writes' = {}
    /\ UNCHANGED calls

\* A breeding goroutine writes slot i + 1 instead of slot i (wrapping round).
BreedStepShifted(b) ==
    /\ spc = "wait2"
    /\ b <= NBatchesNow
    /\ breedI[b] < batches[b].End
    /\ \E toSort \in ParentsToSort, newborn \in Children :
           LET slot == ((breedI[b] + 1) % options.PopulationSize) + 1
               child == ChildId(breedI[b])
           IN  /\ member' = [SortAll(member, toSort) EXCEPT ![child] = newborn]
               /\ nextPopulation' = [nextPopulation EXCEPT ![slot] = child]
               /\ writers' = [writers EXCEPT ![slot] = Append(@, b)]
               /\ writes' = writes \cup {Write("breeding", b, child)}
                                   \cup {Write("breeding", b, id) : id \in toSort}
    /\ breedI' = [breedI EXCEPT ![b] = @ + 1]
    /\ UNCHANGED <<buildIntBits, args, spc, population, options, generationNo, batches,
                   fitnessSum, distI, fitI, fitStage, returned, iterations>>
    /\ calls' = [calls EXCEPT !.crossover = @ + 1, !.mutateDraws = @ + 1]

\* A breeding goroutine, one slot of its range: two parents are picked and
\* crossed over, the child is possibly mutated (Mutate is the Member's own
\* code and touches the child only) and stored in nextPopulation[i].
BreedStep(b) ==
    /\ spc = "wait2"
    /\ b <= NBatchesNow
    /\ breedI[b] < batches[b].End
    /\ \E toSort \in ParentsToSort, newborn \in Children :
           LET slot == breedI[b] + 1
               child == ChildId(breedI[b])
           IN  /\ member' = [SortAll(member, toSort) EXCEPT ![child] = newborn]
               /\ nextPopulation' = [nextPopulation EXCEPT ![slot] = child]
               /\ writers' = [writers EXCEPT ![slot] = Append(@, b)]
               /\ writes' = writes \cup {Write("breeding", b, child)}
                                   \cup {Write("breeding", b, id) : id \in toSort}
    /\ breedI' = [breedI EXCEPT ![b] = @ + 1]
    /\ UNCHANGED <<buildIntBits, args, spc, population, options, generationNo, batches,
                   fitnessSum, distI, fitI, fitStage, returned, iterations>>
    /\ calls' = [calls EXCEPT !.crossover = @ + 1, !.mutateDraws = @ + 1]

\* The update of the population done one slot only.
SwapFirstSlotOnly ==
    /\ spc = "wait2"
    /\ \A b \in 1..NBatchesNow : breedI[b] = batches[b].End
    /\ population' = [population EXCEPT ![1] = nextPopulation[1]]
    /\ generationNo' = U32(generationNo + 1)
    /\ spc' = "loop"
    /\ UNCHANGED <<buildIntBits, args, options, member, batches, fitnessSum, distI, fitI,
                   fitStage, nextPopulation, breedI, returned, iterations, writers>>
    /\ UNCHANGED ghostVars

\* wg.Wait() after breeding, then "Update the population and generation
\* number". The members of the old population become unreachable and are
\* dropped from the heap.
Swap ==
    /\ spc = "wait2"
    /\ \A b \in 1..NBatchesNow : breedI[b] = batches[b].End
    /\ population' = nextPopulation
    /\ generationNo' = U32(generationNo + 1)
    /\ member' = [id \in MemberIds |->
                     IF \E i \in 1..Len(population) : population[i] = id
                     THEN ZeroMember ELSE member[id]]
    /\ spc' = "loop"
    /\ UNCHANGED <<buildIntBits, args, options, batches, fitnessSum, distI, fitI, fitStage,
                   nextPopulation, breedI, returned, iterations, writers>>
    /\ UNCHANGED ghostVars

Batches == 1..MaxPop

\* ------------------------------------------------------------ neat/neat.go

\* The largest population, the largest network shape, the number of nodes a
\* genome may grow to, and the number of Mutate calls of a run (one per
\* genome and generation).
NGenomes == 3

MaxInputs == 2

MaxOutputs == 1

MaxNodes == 4

MaxOps == 6

\* Mutate runs in the breeding goroutines of Solve, one per batch: no more
\* than this many genomes are inside a mutation at once.
MaxActive == 2

\* const maxDepth uint32 = 20
maxDepth == 20

VARIABLES nInputs, nOutputs, nets, innovationNoTracker, mutationHistory, mutHistoryNil,
          mutHistoryMutex, npc, nloc, neatPanic, popSize, neatGeneration, mutated, allocated,
          handed

neatVars == <<nInputs, nOutputs, nets, innovationNoTracker, mutationHistory, mutHistoryNil,
              mutHistoryMutex, npc, nloc, neatPanic, popSize, neatGeneration, mutated,
              allocated, handed>>

Genomes == 1..NGenomes

\* randomWeight(): rand.Float64()*2 - 1, two representatives of [-1, 1).
Weights == {-1, 1}

\* The draw of randomWeight() for a new connection: one representative, any
\* other weight is a mutateWeights away.
NewWeights == {1}

\* mutationType: addNode = iota, addConn
addNodeType == "addNode"

addConnType == "addConn"

Node(id, layer, act) == [id |-> id, layer |-> layer, activation |-> act]

ConnectionNodes(s, r) == <<s, r>>

Connection(endpoints, weight, enabled, innovationNo) ==
    [endpoints |-> endpoints, weight |-> weight, enabled |-> enabled,
     innovationNo |-> innovationNo]

Mutation(typeId, conn) == [typeId |-> typeId, conn |-> conn]

\* NewNetwork(nIn, nOut): the input nodes on layer 0, the output nodes on
\* layer maxDepth, no connection.
NewNetwork(nIn, nOut) ==
    [nodes |-> [i \in 1..(nIn + nOut) |->
                   IF i <= nIn THEN Node(i - 1, 0, "identity")
                   ELSE Node(i - 1, maxDepth, "sigmoid")],
     connections |-> <<>>,
     nInputs |-> nIn,
     nOutputs |-> nOut,
     FitnessScore |-> 0,
     SurvivalChance |-> Frac(0, 1),
     nSimilar |-> 0,
     sorted |-> FALSE]

\* net.nodes[id] (identifiers are 0-based slice indices).
NodeAt(net, id) == net.nodes[id + 1]

HasNode(net, id) == id >= 0 /\ id < Len(net.nodes)

\* The map write `mutationHistory[key] = mut`.
HistoryPut(h, key, mut) ==
    [k \in (DOMAIN h) \cup {key} |-> IF k = key THEN mut ELSE h[k]]

\* `mut, present = mutationHistory[key]` with the wanted typeId.
HistoryHas(key, typeId) ==
    key \in DOMAIN mutationHistory /\ mutationHistory[key].typeId = typeId

\* Genomes inside addConnection or addNode.
Active == {g \in Genomes : npc[g] # "idle"}

\* The genomes start out alike; they are numbered in the order in which
\* they first take part in a mutation.
Started(g) ==
    IF g = 1 THEN TRUE
    ELSE Len(nets[g - 1].connections) > 0 \/ npc[g - 1] # "idle"

\* Solve calls Mutate at most once on every child it breeds: genome g has not
\* been mutated in this generation, and a breeding worker is free to do it.
MayMutate(g) ==
    /\ ~neatPanic
    /\ npc[g] = "idle"
    /\ g <= popSize
    /\ g \notin mutated
    /\ Started(g)
    /\ Cardinality(Active) < MaxActive

NoLocals == [op |-> "none", ep1 |-> <<0, 0>>, ep2 |-> <<0, 0>>, got |-> <<>>]

\* The checks of addConnection before the registry is consulted: not the
\* same node, not backwards, not already present.
CanConnect(net, s, r) ==
    /\ ~(s = r \/ NodeAt(net, s).layer >= NodeAt(net, r).layer)
    /\ \A i \in 1..Len(net.connections) : net.connections[i].endpoints # ConnectionNodes(s, r)

InitNeat ==
    /\ nInputs \in 1..MaxInputs
    /\ nOutputs \in 1..MaxOutputs
    /\ nets = [g \in Genomes |-> NewNetwork(nInputs, nOutputs)]
    /\ innovationNoTracker = 0
    /\ mutationHistory = <<>>
    /\ mutHistoryNil = TRUE
    /\ mutHistoryMutex = 0
    /\ npc = [g \in Genomes |-> "idle"]
    /\ nloc = [g \in Genomes |-> NoLocals]
    /\ neatPanic = FALSE
    /\ popSize \in 1..NGenomes
    /\ neatGeneration = 1
    /\ mutated = {}
    /\ allocated = <<>>
    /\ handed = {}

\* The NEAT package is not in use.
NeatIdle ==
    /\ nInputs = 0
    /\ nOutputs = 0
    /\ nets = <<>>
    /\ innovationNoTracker = 0
    /\ mutationHistory = <<>>
    /\ mutHistoryNil = TRUE
    /\ mutHistoryMutex = 0
    /\ npc = <<>>
    /\ nloc = <<>>
    /\ neatPanic = FALSE
    /\ popSize = 0
    /\ neatGeneration = 0
    /\ mutated = {}
    /\ allocated = <<>>
    /\ handed = {}

\* The registry map is declared and never allocated by neat.go: it is nil
\* until the program embedding the package allocates it, which is taken to
\* happen, if at all, before the first mutation.
AllocateRegistry ==
    /\ ~neatPanic
    /\ mutHistoryNil
    /\ neatGeneration = 1 /\ mutated = {}
    /\ mutHistoryNil' = FALSE
    /\ UNCHANGED <<nInputs, nOutputs, nets, innovationNoTracker, mutationHistory,
                   mutHistoryMutex, npc, nloc, neatPanic, popSize, neatGeneration, mutated,
                   allocated, handed>>

\* addConnection up to mutHistoryMutex.Lock(): sender s and receiver r are
\* the two draws of rand.IntN(len(net.nodes)); a rejected pair returns at once
\* and leaves no trace.
AddConnectionBegin(g, s, r) ==
    /\ MayMutate(g)
    /\ HasNode(nets[g], s) /\ HasNode(nets[g], r)
    /\ CanConnect(nets[g], s, r)
    /\ npc' = [npc EXCEPT ![g] = "lock"]
    /\ nloc' = [nloc EXCEPT ![g] = [op |-> addConnType, ep1 |-> ConnectionNodes(s, r),
                                    ep2 |-> <<0, 0>>, got |-> <<>>]]
    /\ mutated' = mutated \cup {g}
    /\ UNCHANGED <<nInputs, nOutputs, nets, innovationNoTracker, mutationHistory,
                   mutHistoryNil, mutHistoryMutex, neatPanic, popSize, neatGeneration,
                   allocated, handed>>

\* addNode up to mutHistoryMutex.Lock(): connection k (0-based) is the draw
\* of rand.IntN(len(net.connections)); the new node is appended before the
\* registry is consulted.
AddNodeBegin(g, k) ==
    /\ MayMutate(g)
    /\ Len(nets[g].nodes) < MaxNodes
    /\ k >= 0 /\ k < Len(nets[g].connections)
    /\ LET net == nets[g]
           conn == net.connections[k + 1]
           sender == conn.endpoints[1]
           receiver == conn.endpoints[2]
       IN  /\ conn.enabled
           /\ HasNode(net, sender)
           /\ NodeAt(net, sender).layer + 1 < maxDepth
           /\ LET newLayer == NodeAt(net, sender).layer + 1
                  newNode == Node(Len(net.nodes), newLayer, "tanh")
              IN  /\ nets' = [nets EXCEPT ![g].nodes = Append(@, newNode)]
                  /\ nloc' = [nloc EXCEPT ![g] =
                                 [op |-> addNodeType,
                                  ep1 |-> ConnectionNodes(sender, newNode.id),
                                  ep2 |-> ConnectionNodes(newNode.id, receiver),
                                  got |-> <<>>]]
    /\ npc' = [npc EXCEPT ![g] = "lock"]
    /\ mutated' = mutated \cup {g}
    /\ UNCHANGED <<nInputs, nOutputs, innovationNoTracker, mutationHistory, mutHistoryNil,
                   mutHistoryMutex, neatPanic, popSize, neatGeneration, allocated, handed>>

\* addNode on a genome without connections: rand.IntN(0) panics; so does
\* net.nodes[senderId] for a sender the genome has no node for.
AddNodePanic(g) ==
    /\ MayMutate(g)
    /\ \/ Len(nets[g].connections) = 0
       \/ \E k \in 1..Len(nets[g].connections) :
              /\ nets[g].connections[k].enabled
              /\ ~HasNode(nets[g], nets[g].connections[k].endpoints[1])
    /\ neatPanic' = TRUE
    /\ mutated' = mutated \cup {g}
    /\ UNCHANGED <<nInputs, nOutputs, nets, innovationNoTracker, mutationHistory,
                   mutHistoryNil, mutHistoryMutex, npc, nloc, popSize, neatGeneration,
                   allocated, handed>>

\* mutateWeights: every connection keeps its weight or gets a new random one.
MutateWeights(g) ==
    /\ MayMutate(g)
    /\ Len(nets[g].connections) > 0
    /\ \E ws \in [1..Len(nets[g].connections) -> Weights] :
           nets' = [nets EXCEPT ![g].connections =
                       [i \in 1..Len(@) |-> [@[i] EXCEPT !.weight = ws[i]]]]
    /\ mutated' = mutated \cup {g}
    /\ UNCHANGED <<nInputs, nOutputs, innovationNoTracker, mutationHistory, mutHistoryNil,
                   mutHistoryMutex, npc, nloc, neatPanic, popSize, neatGeneration, allocated,
                   handed>>

\* A Lock that does not wait for the holder to leave.
LockWithoutWaiting(g) ==
    /\ ~neatPanic
    /\ npc[g] = "lock"
    /\ mutHistoryMutex' = g
    /\ npc' = [npc EXCEPT ![g] = "lookup"]
    /\ UNCHANGED <<nInputs, nOutputs, nets, innovationNoTracker, mutationHistory,
                   mutHistoryNil, nloc, neatPanic, popSize, neatGeneration, mutated, allocated,
                   handed>>

\* mutHistoryMutex.Lock()
Lock(g) ==
    /\ ~neatPanic
    /\ npc[g] = "lock"
    /\ mutHistoryMutex = 0
    /\ mutHistoryMutex' = g
    /\ npc' = [npc EXCEPT ![g] = "lookup"]
    /\ UNCHANGED <<nInputs, nOutputs, nets, innovationNoTracker, mutationHistory,
                   mutHistoryNil, nloc, neatPanic, popSize, neatGeneration, mutated, allocated,
                   handed>>

\* What a finished structural mutation is remembered by: its kind, the
\* endpoints it asked the registry for, and the connections it was given.
Handed(loc, conns) == [op |-> loc.op, ep1 |-> loc.ep1, ep2 |-> loc.ep2, conns |-> conns]

\* The registry lookup under the lock: an addConn record for the endpoints,
\* or addNode records for both endpoints, are copied into the genome;
\* otherwise new connections are to be created.
Lookup(g) ==
    /\ ~neatPanic
    /\ npc[g] = "lookup"
    /\ LET loc == nloc[g]
           found == IF loc.op = addConnType
                    THEN HistoryHas(loc.ep1, addConnType)
                    ELSE HistoryHas(loc.ep1, addNodeType) /\ HistoryHas(loc.ep2, addNodeType)
           conns == IF loc.op = addConnType
                    THEN <<mutationHistory[loc.ep1].conn>>
                    ELSE <<mutationHistory[loc.ep1].conn, mutationHistory[loc.ep2].conn>>
       IN  IF found
           THEN /\ nets' = [nets EXCEPT ![g].connections = @ \o conns]
                /\ handed' = handed \cup {Handed(loc, conns)}
                /\ npc' = [npc EXCEPT ![g] = "unlock"]
           ELSE /\ npc' = [npc EXCEPT ![g] = "inc"]
                /\ UNCHANGED <<nets, handed>>
    /\ UNCHANGED <<nInputs, nOutputs, innovationNoTracker, mutationHistory, mutHistoryNil,
                   mutHistoryMutex, nloc, neatPanic, popSize, neatGeneration, mutated,
                   allocated>>

\* getNewInnovationNumber: innovationNoTracker++
GetNewInnovationNumberInc(g) ==
    /\ ~neatPanic
    /\ npc[g] = "inc"
    /\ innovationNoTracker' = innovationNoTracker + 1
    /\ npc' = [npc EXCEPT ![g] = "ret"]
    /\ UNCHANGED <<nInputs, nOutputs, nets, mutationHistory, mutHistoryNil, mutHistoryMutex,
                   nloc, neatPanic, popSize, neatGeneration, mutated, allocated, handed>>

\* getNewInnovationNumber: return innovationNoTracker - 1. addNode asks for a
\* second number after the first.
GetNewInnovationNumberRet(g) ==
    /\ ~neatPanic
    /\ npc[g] = "ret"
    /\ LET n == innovationNoTracker - 1
           got == Append(nloc[g].got, n)
           wanted == IF nloc[g].op = addConnType THEN 1 ELSE 2
       IN  /\ nloc' = [nloc EXCEPT ![g].got = got]
           /\ allocated' = Append(allocated, n)
           /\ npc' = [npc EXCEPT ![g] = IF Len(got) < wanted THEN "inc" ELSE "insert"]
    /\ UNCHANGED <<nInputs, nOutputs, nets, innovationNoTracker, mutationHistory,
                   mutHistoryNil, mutHistoryMutex, neatPanic, popSize, neatGeneration, mutated,
                   handed>>

\* The new connections are appended to the genome and recorded in the
\* registry; recording in a nil map panics (the connections are appended by
\* then, the mutex is never released).
Insert(g) ==
    /\ ~neatPanic
    /\ npc[g] = "insert"
    /\ \E w1 \in NewWeights, w2 \in NewWeights :
           LET loc == nloc[g]
               c1 == Connection(loc.ep1, w1, TRUE, loc.got[1])
               conns == IF loc.op = addConnType THEN <<c1>>
                        ELSE <<c1, Connection(loc.ep2, w2, TRUE, loc.got[2])>>
               h1 == HistoryPut(mutationHistory, loc.ep1, Mutation(loc.op, c1))
           IN  /\ (loc.op = addConnType => w2 = w1)
               /\ nets' = [nets EXCEPT ![g].connections = @ \o conns]
               /\ IF mutHistoryNil
                  THEN /\ neatPanic' = TRUE
                       /\ UNCHANGED <<mutationHistory, handed, npc>>
                  ELSE /\ mutationHistory' =
                              IF loc.op = addConnType THEN h1
                              ELSE HistoryPut(h1, loc.ep2, Mutation(loc.op, conns[2]))
                       /\ handed' = handed \cup {Handed(loc, conns)}
                       /\ npc' = [npc EXCEPT ![g] = "unlock"]
                       /\ UNCHANGED neatPanic
    /\ UNCHANGED <<nInputs, nOutputs, innovationNoTracker, mutHistoryNil, mutHistoryMutex,
                   nloc, popSize, neatGeneration, mutated, allocated>>

\* mutHistoryMutex.Unlock(), and the return of addConnection or addNode.
Unlock(g) ==
    /\ ~neatPanic
    /\ npc[g] = "unlock"
    /\ mutHistoryMutex' = 0
    /\ npc' = [npc EXCEPT ![g] = "idle"]
    /\ nloc' = [nloc EXCEPT ![g] = NoLocals]
    /\ UNCHANGED <<nInputs, nOutputs, nets, innovationNoTracker, mutationHistory,
                   mutHistoryNil, neatPanic, popSize, neatGeneration, mutated, allocated,
                   handed>>

\* clearMutationHistory(): every key is deleted.
clearMutationHistory(h) == <<>>

\* The next generation: the breeding workers have all returned, and
\* ComputeAndSetFitnessScore empties a registry that is not empty before any
\* child is mutated.
NextGeneration ==
    /\ ~neatPanic
    /\ \A g \in Genomes : npc[g] = "idle"
    /\ mutated # {}
    /\ (neatGeneration + 1) * popSize <= MaxOps
    /\ mutationHistory' = IF DOMAIN mutationHistory # {}
                          THEN clearMutationHistory(mutationHistory)
                          ELSE mutationHistory
    /\ handed' = {}
    /\ mutated' = {}
    /\ neatGeneration' = neatGeneration + 1
    /\ UNCHANGED <<nInputs, nOutputs, nets, innovationNoTracker, mutHistoryNil,
                   mutHistoryMutex, npc, nloc, neatPanic, popSize, allocated>>

NodeIds == 0..(MaxNodes - 1)

ConnIndices == 0..(2 * MaxOps)

\* ------------------------- neat/neat.go: ComputeAndSetFitnessScore

\* The records one breeding phase can leave in the registry of a population
\* of one input and one output: a connection 0 -> 1 and its split by node 2.
LeftRecords ==
    (ConnectionNodes(0, 1) :> Mutation(addConnType, Connection(ConnectionNodes(0, 1), 1, TRUE, 0)))
    @@ (ConnectionNodes(0, 2) :> Mutation(addNodeType, Connection(ConnectionNodes(0, 2), 1, TRUE, 1)))
    @@ (ConnectionNodes(2, 1) :> Mutation(addNodeType, Connection(ConnectionNodes(2, 1), 1, TRUE, 2)))

\* uint32(K * fitness / float64(net.nSimilar)): testSet is never assigned, so
\* fitness is 0; with nSimilar = 0 the quotient is NaN, whose conversion to
\* uint32 gives a value that depends on the build.
AdjustedFitness(net) == IF net.nSimilar > 0 THEN {0} ELSE FitnessValues

\* The fitness goroutines of one generation are about to run: the genomes
\* carry the similar counts of the distance phase, the registry what the
\* breeding before left in it.
InitNeatFitness ==
    /\ nInputs = 1
    /\ nOutputs = 1
    /\ popSize \in 1..NGenomes
    /\ nets \in [1..popSize -> {[NewNetwork(1, 1) EXCEPT !.nSimilar = n, !.sorted = TRUE] :
                                   n \in {0, popSize}}]
    /\ mutHistoryNil \in BOOLEAN
    /\ \E keys \in SUBSET (DOMAIN LeftRecords) :
           /\ mutHistoryNil => keys = {}
           /\ mutationHistory = [k \in keys |-> LeftRecords[k]]
    /\ innovationNoTracker = Cardinality(DOMAIN mutationHistory)
    /\ mutHistoryMutex = 0
    /\ npc = [g \in 1..popSize |-> "idle"]
    /\ nloc = [g \in 1..popSize |-> NoLocals]
    /\ neatPanic = FALSE
    /\ neatGeneration = 1
    /\ mutated = {}
    /\ allocated = <<>>
    /\ handed = {}

\* ComputeAndSetFitnessScore of genome g: "if len(mutationHistory) > 0".
FitnessLen(g) ==
    /\ ~neatPanic
    /\ g \in DOMAIN npc
    /\ npc[g] = "idle"
    /\ npc' = [npc EXCEPT ![g] = IF DOMAIN mutationHistory # {} THEN "clear" ELSE "score"]
    /\ UNCHANGED <<nInputs, nOutputs, nets, innovationNoTracker, mutationHistory,
                   mutHistoryNil, mutHistoryMutex, nloc, neatPanic, popSize, neatGeneration,
                   mutated, allocated, handed>>

\* clearMutationHistory, one turn of its loop: delete(mutationHistory, cn).
ClearDelete(g) ==
    /\ ~neatPanic
    /\ g \in DOMAIN npc
    /\ npc[g] = "clear"
    /\ \E cn \in DOMAIN mutationHistory :
           mutationHistory' = [k \in (DOMAIN mutationHistory) \ {cn} |-> mutationHistory[k]]
    /\ UNCHANGED <<nInputs, nOutputs, nets, innovationNoTracker, mutHistoryNil,
                   mutHistoryMutex, npc, nloc, neatPanic, popSize, neatGeneration, mutated,
                   allocated, handed>>

\* clearMutationHistory returns: the range loop finds no more entry.
ClearReturn(g) ==
    /\ ~neatPanic
    /\ g \in DOMAIN npc
    /\ npc[g] = "clear"
    /\ DOMAIN mutationHistory = {}
    /\ npc' = [npc EXCEPT ![g] = "score"]
    /\ UNCHANGED <<nInputs, nOutputs, nets, innovationNoTracker, mutationHistory,
                   mutHistoryNil, mutHistoryMutex, nloc, neatPanic, popSize, neatGeneration,
                   mutated, allocated, handed>>

\* Two goroutines are inside clearMutationHistory: the Go runtime may stop
\* the program ("concurrent map iteration and map write").
ClearCrash(g) ==
    /\ ~neatPanic
    /\ g \in DOMAIN npc
    /\ npc[g] = "clear"
    /\ \E h \in DOMAIN npc : h # g /\ npc[h] = "clear"
    /\ neatPanic' = TRUE
    /\ UNCHANGED <<nInputs, nOutputs, nets, innovationNoTracker, mutationHistory,
                   mutHistoryNil, mutHistoryMutex, npc, nloc, popSize, neatGeneration,
                   mutated, allocated, handed>>

\* The rest of ComputeAndSetFitnessScore: the adjusted fitness is stored.
FitnessScoreSet(g) ==
    /\ ~neatPanic
    /\ g \in DOMAIN npc
    /\ npc[g] = "score"
    /\ \E f \in AdjustedFitness(nets[g]) : nets' = [nets EXCEPT ![g].FitnessScore = f]
    /\ npc' = [npc EXCEPT ![g] = "done"]
    /\ UNCHANGED <<nInputs, nOutputs, innovationNoTracker, mutationHistory, mutHistoryNil,
                   mutHistoryMutex, nloc, neatPanic, popSize, neatGeneration, mutated,
                   allocated, handed>>

\* ------------------------------------- neat/neat.go: Crossover and Feed

\* Bounds of the genomes Crossover and Feed are applied to.
MaxGenomeInputs == 1

MaxHidden == 1

MaxConns == 2

MaxInnovation == 1

MaxFeeds == 2

\* genome is the receiver of a call (the code's net), otherNetwork the
\* argument of Crossover and newNetwork its result; feedInput and
\* accumulators are the argument and the local slice of the Feed call in
\* progress, outputs the calls of Feed that returned.
VARIABLES gpc, genome, otherNetwork, newNetwork, feedInput, accumulators, outputs

genomeVars == <<gpc, genome, otherNetwork, newNetwork, feedInput, accumulators, outputs>>

\* No Network (a nil pointer).
NoNetwork == [nodes |-> <<>>, connections |-> <<>>, nInputs |-> 0, nOutputs |-> 0,
              FitnessScore |-> 0, SurvivalChance |-> Frac(0, 1), nSimilar |-> 0,
              sorted |-> FALSE]

InnovationNos == 0..MaxInnovation

InputValues == {0, 1}

\* The sequences of at most n elements of S.
RECURSIVE SeqsUpTo(_, _)
SeqsUpTo(S, n) ==
    IF n = 0 THEN {<<>>}
    ELSE LET shorter == SeqsUpTo(S, n - 1)
         IN  shorter \cup {Append(q, x) : q \in {r \in shorter : Len(r) = n - 1}, x \in S}

\* The nodes of a genome of nIn inputs and nOut outputs that addNode gave h
\* hidden nodes (splits of connections leaving an input: layer 1).
GrownNodes(nIn, nOut, h) ==
    NewNetwork(nIn, nOut).nodes \o [i \in 1..h |-> Node(nIn + nOut + i - 1, 1, "tanh")]

\* The connections addConnection and addNode can have put between nodes:
\* from a node to a node of a higher layer, enabled.
GrownConnections(nodes, weights) ==
    {Connection(ConnectionNodes(nodes[i].id, nodes[j].id), w, TRUE, n) :
         <<i, j>> \in {ij \in (DOMAIN nodes) \X (DOMAIN nodes) :
                          nodes[ij[1]].layer < nodes[ij[2]].layer},
         w \in weights, n \in InnovationNos}

\* slices.SortFunc by innovationNo has left cs in order.
InOrder(cs) == \A i \in 1..(Len(cs) - 1) : cs[i].innovationNo <= cs[i + 1].innovationNo

\* The genomes of nIn inputs the mutations can have grown; one is flagged
\* sorted only by Distance or Crossover, that sort it, and is not mutated
\* afterwards.
GrownGenomes(nIn, weights) ==
    {[NewNetwork(nIn, MaxOutputs) EXCEPT !.nodes = GrownNodes(nIn, MaxOutputs, h),
                                         !.connections = cs,
                                         !.sorted = flag] :
         <<h, cs, flag>> \in
             {t \in (0..MaxHidden)
                    \X SeqsUpTo(GrownConnections(GrownNodes(nIn, MaxOutputs, MaxHidden), weights),
                                MaxConns)
                    \X BOOLEAN :
                 /\ \A k \in 1..Len(t[2]) :
                        /\ t[2][k].endpoints[1] < nIn + MaxOutputs + t[1]
                        /\ t[2][k].endpoints[2] < nIn + MaxOutputs + t[1]
                 /\ t[3] => InOrder(t[2])}}

\* The outcomes of slices.SortFunc on cs (the sort is not stable: any order
\* of the connections with equal numbers).
SortFunc(cs) ==
    {[i \in 1..Len(cs) |-> cs[p[i]]] :
         p \in {q \in [1..Len(cs) -> 1..Len(cs)] :
                   /\ \A i \in 1..Len(cs) : \A j \in 1..Len(cs) : q[i] = q[j] => i = j
                   /\ InOrder([i \in 1..Len(cs) |-> cs[q[i]]])}}

\* "if !net.sorted { slices.SortFunc(net.connections, ...); net.sorted = true }"
SortedOnce(net) ==
    IF net.sorted THEN {net}
    ELSE {[net EXCEPT !.connections = cs, !.sorted = TRUE] : cs \in SortFunc(net.connections)}

\* copy(dst, src): the first min(len(dst), len(src)) elements of src.
Copy(dst, src) == [i \in 1..Len(dst) |-> IF i <= Len(src) THEN src[i] ELSE dst[i]]

\* The child of net and other, both sorted; fromNet[i] is the draw
\* rand.Float32() < 0.5 made at a position both parents have.
Child(net, other, fromNet) ==
    LET fresh == NewNetwork(net.nInputs, net.nOutputs)
    IN  [fresh EXCEPT
            !.connections = [i \in 1..Len(net.connections) |->
                                IF i > Len(other.connections) THEN net.connections[i]
                                ELSE IF fromNet[i] THEN net.connections[i]
                                ELSE other.connections[i]],
            !.nodes = Copy(fresh.nodes, net.nodes)]

\* Crossover is applied to every pair of grown genomes of one shape.
InitCrossover ==
    /\ gpc = "idle"
    /\ \E nIn \in 1..MaxGenomeInputs :
           /\ genome \in GrownGenomes(nIn, NewWeights)
           /\ otherNetwork \in GrownGenomes(nIn, NewWeights)
    /\ newNetwork = NoNetwork
    /\ feedInput = <<>>
    /\ accumulators = <<>>
    /\ outputs = <<>>

\* No genome is in use.
GenomeIdle ==
    /\ gpc = "none"
    /\ genome = NoNetwork
    /\ otherNetwork = NoNetwork
    /\ newNetwork = NoNetwork
    /\ feedInput = <<>>
    /\ accumulators = <<>>
    /\ outputs = <<>>

\* genome.Crossover(otherNetwork)
NetworkCrossover ==
    /\ gpc = "idle"
    /\ newNetwork = NoNetwork
    /\ otherNetwork # NoNetwork
    /\ \E net \in SortedOnce(genome), other \in SortedOnce(otherNetwork),
          fromNet \in [1..Len(genome.connections) -> BOOLEAN] :
           /\ genome' = net
           /\ otherNetwork' = other
           /\ newNetwork' = Child(net, other, fromNet)
    /\ UNCHANGED <<gpc, feedInput, accumulators, outputs>>

\* float64 values are kept as the terms the code computes them by: a
\* literal, an activation function applied to a value, a value times a
\* weight, a sum of two values (in the order of the additions).
Num(n) == [op |-> "num", n |-> n, args |-> <<>>]

Times(x, w) == [op |-> "mul", n |-> w, args |-> <<x>>]

Plus(x, y) == [op |-> "add", n |-> 0, args |-> <<x, y>>]

\* node.activation.Compute(x): IdentityActivation returns its input,
\* TanhActivation math.Tanh(x), SigmoidActivation 1 / (1 + math.Exp(-x)).
Compute(act, x) == IF act = "identity" THEN x ELSE [op |-> act, n |-> 0, args |-> <<x>>]

\* The accumulators of a former call, kept and given the new input.
ReusedAccumulators(net, in) ==
    IF Len(accumulators) # Len(net.nodes)
    THEN [i \in 1..Len(net.nodes) |->
             IF i <= net.nInputs /\ i <= Len(in) THEN Num(in[i]) ELSE Num(0)]
    ELSE [i \in 1..Len(net.nodes) |->
             IF i <= net.nInputs /\ i <= Len(in) THEN Num(in[i]) ELSE accumulators[i]]

\* make([]float64, len(net.nodes)); copy(accumulators[:net.nInputs], input)
NewAccumulators(net, in) ==
    [i \in 1..Len(net.nodes) |->
        IF i <= net.nInputs /\ i <= Len(in) THEN Num(in[i]) ELSE Num(0)]

\* Feed indexes net.nodes by the sender of every connection, the slice of
\* maxDepth layers by the sender's layer and the accumulators by the
\* receiver of every enabled connection: an index out of range panics.
FeedPanics(net) ==
    \E k \in 1..Len(net.connections) :
        LET c == net.connections[k]
        IN  IF ~HasNode(net, c.endpoints[1]) THEN TRUE
            ELSE IF NodeAt(net, c.endpoints[1]).layer >= maxDepth THEN TRUE
            ELSE c.enabled /\ ~HasNode(net, c.endpoints[2])

\* connectionsByLayer[i], as indices into net.connections in their order.
ConnectionsOfLayer(net, i) ==
    SelectSeq([k \in 1..Len(net.connections) |-> k],
              LAMBDA k : NodeAt(net, net.connections[k].endpoints[1]).layer = i)

\* The inner loop of Feed over the connections ks of one layer.
RECURSIVE FeedConnections(_, _, _)
FeedConnections(net, acc, ks) ==
    IF ks = <<>> THEN acc
    ELSE LET conn == net.connections[Head(ks)]
             connInput == Compute(NodeAt(net, conn.endpoints[1]).activation,
                                  acc[conn.endpoints[1] + 1])
             connOutput == Times(connInput, conn.weight)
             next == IF conn.enabled
                     THEN [acc EXCEPT ![conn.endpoints[2] + 1] = Plus(@, connOutput)]
                     ELSE acc
         IN  FeedConnections(net, next, Tail(ks))

\* "Feed the network layer by layer": layers i, i + 1, ..., maxDepth - 1.
RECURSIVE FeedLayers(_, _, _)
FeedLayers(net, acc, i) ==
    IF i >= maxDepth THEN acc
    ELSE FeedLayers(net, FeedConnections(net, acc, ConnectionsOfLayer(net, i)), i + 1)

\* "Call the activation function of the output layer"
Output(net, acc) ==
    [o \in 1..net.nOutputs |-> Compute(net.nodes[net.nInputs + o].activation,
                                       acc[net.nInputs + o])]

\* The genomes Feed is applied to: the grown genomes and the children
\* Crossover makes of them, which keep the input and output nodes only.
FedGenomes(nIn) ==
    UNION {{g, [g EXCEPT !.nodes = SubSeq(g.nodes, 1, g.nInputs + g.nOutputs)]} :
              g \in GrownGenomes(nIn, Weights)}

InitFeed ==
    /\ gpc = "idle"
    /\ \E nIn \in 1..MaxGenomeInputs : genome \in FedGenomes(nIn)
    /\ otherNetwork = NoNetwork
    /\ newNetwork = NoNetwork
    /\ feedInput = <<>>
    /\ accumulators = <<>>
    /\ outputs = <<>>

\* genome.Feed(in), up to the grouping of the connections by layer.
FeedBegin(in) ==
    /\ gpc = "idle"
    /\ Len(outputs) < MaxFeeds
    /\ ~FeedPanics(genome)
    /\ feedInput' = in
    /\ accumulators' = NewAccumulators(genome, in)
    /\ gpc' = "feeding"
    /\ UNCHANGED <<genome, otherNetwork, newNetwork, outputs>>

\* genome.Feed(in) on a genome with a connection to or from a node it has not.
FeedPanic(in) ==
    /\ gpc = "idle"
    /\ FeedPanics(genome)
    /\ feedInput' = in
    /\ gpc' = "panic"
    /\ UNCHANGED <<genome, otherNetwork, newNetwork, accumulators, outputs>>

\* The loop over the layers.
FeedForward ==
    /\ gpc = "feeding"
    /\ accumulators' = FeedLayers(genome, accumulators, 0)
    /\ gpc' = "fed"
    /\ UNCHANGED <<genome, otherNetwork, newNetwork, feedInput, outputs>>

\* The output is built and returned; the accumulators are garbage.
FeedReturn ==
    /\ gpc = "fed"
    /\ outputs' = Append(outputs, [net |-> genome, input |-> feedInput,
                                   output |-> Output(genome, accumulators)])
    /\ gpc' = "idle"
    /\ UNCHANGED <<genome, otherNetwork, newNetwork, feedInput, accumulators>>

\* The inputs given to Feed.
FeedInputs == [1..MaxGenomeInputs -> InputValues]

\* ------------------------------- ga/ga.go: pickRandomMember in float32

\* A float32 keeps 24 significant bits where a uint32 has 32: FloatBits
\* significant bits for the WordBits of a score.
FloatBits == 3

\* The largest population pickRandomMember is applied to.
MaxPick == 4

\* float32 values are whole numbers of units of 1/One, fine enough for every
\* quotient of two scores and every difference the scan forms; One is 1.0.
One == 2 ^ (2 * WordBits + FloatBits)

\* pick: the draw and the outcome of a pickRandomMember call, the member
\* returned and whether it was returned by the statement after the loop.
\* dist: the locals N, E, M, D of the last Distance call and whether its
\* result was below the threshold.
VARIABLES pick, dist

callVars == <<pick, dist>>

NoDistance == [N |-> 0, E |-> 0, M |-> 0, D |-> 0, similar |-> FALSE]

NoPick == [randValue |-> 0, member |-> 0, fallback |-> FALSE]

\* The largest k with 2^k * d <= n.
RECURSIVE Log2(_, _)
Log2(n, d) == IF 2 * d > n THEN 0 ELSE 1 + Log2(n, 2 * d)

\* The float32 nearest to n/d units (ties to the even mantissa): the
\* rounding of every float32 conversion, division and subtraction.
Float32(n, d) ==
    LET k == Log2(n, d)
        q == IF k >= FloatBits - 1 THEN 2 ^ (k - FloatBits + 1) ELSE 1
        m == n \div (d * q)
        rem == n - m * d * q
    IN  IF 2 * rem < d * q THEN m * q
        ELSE IF 2 * rem > d * q THEN (m + 1) * q
        ELSE IF m % 2 = 0 THEN m * q ELSE (m + 1) * q

\* float32(fitnessScore) / float32(fitnessSum), or 1.0 / float32(PopulationSize)
SurvivalChance32(fitnessScore, sum, size) ==
    IF sum # 0 THEN Float32(Float32(fitnessScore * One, 1) * One, Float32(sum * One, 1))
    ELSE Float32(One * One, Float32(size * One, 1))

\* rand.Float32(): the multiples of 2^-FloatBits in [0, 1) (of 2^-24 in Go).
RandValues == {j * (One \div (2 ^ FloatBits)) : j \in 0..(2 ^ FloatBits - 1)}

\* The loop of pickRandomMember from population[k] on, randValue being what
\* the subtractions have left of the draw.
RECURSIVE PickScan32(_, _)
PickScan32(k, randValue) ==
    IF k > Len(population)
    THEN [member |-> population[options.PopulationSize], fallback |-> TRUE]
    ELSE LET survivalChance == member[population[k]].chance.num
         IN  IF randValue < survivalChance
             THEN [member |-> population[k], fallback |-> FALSE]
             ELSE PickScan32(k + 1, Float32(randValue - survivalChance, 1))

\* A solver whose survival-chance loop has just run on a population of n
\* members with the scores fit: the chances are the float32 quotients.
InitPick ==
    \E n \in 1..MaxPick : \E fit \in [1..n -> 0..WordMax] :
        /\ buildIntBits = 2 * WordBits
        /\ population = [i \in 1..n |-> i]
        /\ options = [PopulationSize |-> n, MaxGenerations |-> 2, NBatches |-> 1,
                      Speciation |-> FALSE]
        /\ args = [members |-> population, options |-> options]
        /\ spc = "survived"
        /\ generationNo = 1
        /\ fitnessSum = U32(SumSeq(fit))
        /\ member = [id \in MemberIds |->
                        IF id <= n
                        THEN [fitness |-> fit[id],
                              chance |-> Frac(SurvivalChance32(fit[id], fitnessSum, n), One),
                              sorted |-> FALSE]
                        ELSE ZeroMember]
        /\ batches = BuildBatchesList(n, 1)
        /\ distI = <<>>
        /\ fitI = <<n>>
        /\ fitStage = <<"compute">>
        /\ nextPopulation = <<>>
        /\ breedI = <<>>
        /\ returned = 0
        /\ iterations = 0
        /\ writers = <<>>
        /\ calls = [NoCalls(n) EXCEPT !.fitness = [i \in 1..n |-> 1], !.chance = n]
        /\ writes = {}

\* No call is followed on its own.
CallIdle == pick = NoPick /\ dist = NoDistance

\* solver.pickRandomMember() with the draw randValue.
PickRandomMember(randValue) ==
    /\ spc = "survived"
    /\ pick = NoPick
    /\ LET got == PickScan32(1, randValue)
       IN  pick' = [randValue |-> randValue, member |-> got.member, fallback |-> got.fallback]
    /\ UNCHANGED <<solverVars, dist>>

\* ------------------------------------------- neat/neat.go: Distance

\* "if N < 20 { N = 1 }"
minN == 20

\* The positions the loop "for i := range N" visits.
Positions(net, other) ==
    LET N == IF Len(net.connections) >= Len(other.connections)
             THEN Len(net.connections) ELSE Len(other.connections)
    IN  1..(IF N < minN THEN 1 ELSE N)

\* The positions counted as exceeding, matching and disjoint.
Exceeding(net, other) ==
    {i \in Positions(net, other) : i > Len(net.connections) \/ i > Len(other.connections)}

Matching(net, other) ==
    {i \in Positions(net, other) \ Exceeding(net, other) :
        net.connections[i].innovationNo = other.connections[i].innovationNo}

Disjoint(net, other) ==
    {i \in Positions(net, other) \ Exceeding(net, other) :
        net.connections[i].innovationNo # other.connections[i].innovationNo}

\* weightsDiff: the sum of math.Abs(weight - weight) over the positions in S.
RECURSIVE WeightsDiff(_, _, _)
WeightsDiff(net, other, S) ==
    IF S = {} THEN 0
    ELSE LET i == CHOOSE x \in S : TRUE
             d == net.connections[i].weight - other.connections[i].weight
         IN  (IF d < 0 THEN -d ELSE d) + WeightsDiff(net, other, S \ {i})

\* The locals of net.Distance(other) after its loop, both lists sorted, and
\* "distance < threshold" for
\* distance = 1.0 * E / N + 1.0 * D / N + 0.4 * weightsDiff / M (tenths).
Distance(net, other) ==
    LET N == Cardinality(Positions(net, other))
        E == Cardinality(Exceeding(net, other))
        M == Cardinality(Matching(net, other))
        D == Cardinality(Disjoint(net, other))
        Mdiv == IF M > 0 THEN M ELSE 1
        weightsDiff == WeightsDiff(net, other, Matching(net, other))
    IN  [N |-> N, E |-> E, M |-> M, D |-> D,
         similar |-> 10 * (E + D) * Mdiv + 4 * weightsDiff * N < 3 * N * Mdiv]

\* "if distance < threshold { net.nSimilar++ }"
Counted(net, d) == IF d.similar THEN [net EXCEPT !.nSimilar = U32(@ + 1)] ELSE net

\* The distance loop of Solve for population[i] = genome in the population
\* <<genome, otherNetwork>>: first genome.Distance(genome).
DistanceSelf ==
    /\ gpc = "idle"
    /\ \E net \in SortedOnce(genome) :
           /\ dist' = Distance(net, net)
           /\ genome' = Counted(net, dist')
    /\ gpc' = "self"
    /\ UNCHANGED <<otherNetwork, newNetwork, feedInput, accumulators, outputs, pick>>

\* genome.Distance(otherNetwork), after which the loop of genome is over.
DistanceOther ==
    /\ gpc = "self"
    /\ \E net \in SortedOnce(genome), other \in SortedOnce(otherNetwork) :
           /\ dist' = Distance(net, other)
           /\ genome' = Counted(net, dist')
           /\ otherNetwork' = other
    /\ gpc' = "measured"
    /\ UNCHANGED <<newNetwork, feedInput, accumulators, outputs, pick>>

\* genome.ComputeAndSetFitnessScore() by the fitness goroutine, taken when
\* it finds the distance loop of the genome over (nothing orders the two
\* goroutines); the registry and testSet are empty.
ScoreAfterDistance ==
    /\ gpc = "measured"
    /\ \E f \in AdjustedFitness(genome) : genome' = [genome EXCEPT !.FitnessScore = f]
    /\ gpc' = "scored"
    /\ UNCHANGED <<otherNetwork, newNetwork, feedInput, accumulators, outputs, callVars>>

\* Distance is applied to every pair of grown genomes of one shape.
InitDistance ==
    /\ gpc = "idle"
    /\ \E nIn \in 1..MaxGenomeInputs :
           /\ genome \in GrownGenomes(nIn, Weights)
           /\ otherNetwork \in GrownGenomes(nIn, Weights)
    /\ newNetwork = NoNetwork
    /\ feedInput = <<>>
    /\ accumulators = <<>>
    /\ outputs = <<>>

\* ------------------- neat/neat.go: Mutate, Distance and Crossover in sequence

\* The most connections a genome is grown to by calls made one after another.
MaxGrown == 3

\* net.addConnection() drawing sender s and receiver r, not rejected: the
\* genome, the registry and the tracker it leaves.
addConnection(net, s, r) ==
    LET newEndpoints == ConnectionNodes(s, r)
        newConnection == Connection(newEndpoints, 1, TRUE, innovationNoTracker)
    IN  IF HistoryHas(newEndpoints, addConnType)
        THEN [net |-> [net EXCEPT !.connections =
                                      Append(@, mutationHistory[newEndpoints].conn)],
              history |-> mutationHistory,
              tracker |-> innovationNoTracker]
        ELSE [net |-> [net EXCEPT !.connections = Append(@, newConnection)],
              history |-> HistoryPut(mutationHistory, newEndpoints,
                                     Mutation(addConnType, newConnection)),
              tracker |-> innovationNoTracker + 1]

\* net.addNode() drawing connection k (enabled, below the depth limit).
addNode(net, k) ==
    LET connRef == net.connections[k]
        newNode == Node(Len(net.nodes), NodeAt(net, connRef.endpoints[1]).layer + 1, "tanh")
        newEndpoints1 == ConnectionNodes(connRef.endpoints[1], newNode.id)
        newEndpoints2 == ConnectionNodes(newNode.id, connRef.endpoints[2])
        newConnection1 == Connection(newEndpoints1, 1, TRUE, innovationNoTracker)
        newConnection2 == Connection(newEndpoints2, 1, TRUE, innovationNoTracker + 1)
        grown == [net EXCEPT !.nodes = Append(@, newNode)]
    IN  IF HistoryHas(newEndpoints1, addNodeType) /\ HistoryHas(newEndpoints2, addNodeType)
        THEN [net |-> [grown EXCEPT !.connections =
                                        @ \o <<mutationHistory[newEndpoints1].conn,
                                               mutationHistory[newEndpoints2].conn>>],
              history |-> mutationHistory,
              tracker |-> innovationNoTracker]
        ELSE [net |-> [grown EXCEPT !.connections = @ \o <<newConnection1, newConnection2>>],
              history |-> HistoryPut(HistoryPut(mutationHistory, newEndpoints1,
                                                Mutation(addNodeType, newConnection1)),
                                     newEndpoints2, Mutation(addNodeType, newConnection2)),
              tracker |-> innovationNoTracker + 2]

\* The outcomes of net.Mutate() that change net: addConnection, addNode or
\* mutateWeights.
Mutate(net) ==
    {addConnection(net, s, r) :
         <<s, r>> \in {sr \in (0..(Len(net.nodes) - 1)) \X (0..(Len(net.nodes) - 1)) :
                          /\ Len(net.connections) < MaxGrown
                          /\ CanConnect(net, sr[1], sr[2])}}
    \cup {addNode(net, k) :
              k \in {i \in 1..Len(net.connections) :
                        /\ Len(net.connections) + 2 <= MaxGrown
                        /\ net.connections[i].enabled
                        /\ HasNode(net, net.connections[i].endpoints[1])
                        /\ NodeAt(net, net.connections[i].endpoints[1]).layer + 1 < maxDepth}}
    \cup {[net |-> [net EXCEPT !.connections =
                                  [i \in 1..Len(@) |-> [@[i] EXCEPT !.weight = ws[i]]]],
           history |-> mutationHistory,
           tracker |-> innovationNoTracker] :
              ws \in [1..Len(net.connections) -> Weights]}

\* genome.Mutate() or otherNetwork.Mutate(), between any two other calls;
\* a write to the registry aborts the run while the map is nil, after the
\* connections were appended.
MutateCall(onGenome) ==
    /\ gpc # "none"
    /\ ~neatPanic
    /\ \E out \in Mutate(IF onGenome THEN genome ELSE otherNetwork) :
           /\ out.net # (IF onGenome THEN genome ELSE otherNetwork)
           /\ genome' = IF onGenome THEN out.net ELSE genome
           /\ otherNetwork' = IF onGenome THEN otherNetwork ELSE out.net
           /\ innovationNoTracker' = out.tracker
           /\ IF mutHistoryNil /\ out.history # mutationHistory
              THEN neatPanic' = TRUE /\ UNCHANGED mutationHistory
              ELSE mutationHistory' = out.history /\ UNCHANGED neatPanic
    /\ UNCHANGED <<gpc, newNetwork, feedInput, accumulators, outputs, callVars>>
    /\ UNCHANGED <<nInputs, nOutputs, nets, mutHistoryNil, mutHistoryMutex, npc, nloc,
                   popSize, neatGeneration, mutated, allocated, handed>>

\* Two genomes as NewNetwork makes them and the registry as declared.
InitSequence ==
    /\ gpc = "idle"
    /\ \E nIn \in 1..MaxInputs :
           /\ genome = NewNetwork(nIn, MaxOutputs)
           /\ otherNetwork = NewNetwork(nIn, MaxOutputs)
    /\ newNetwork = NoNetwork
    /\ feedInput = <<>>
    /\ accumulators = <<>>
    /\ outputs = <<>>
    /\ nInputs = 0
    /\ nOutputs = 0
    /\ nets = <<>>
    /\ innovationNoTracker = 0
    /\ mutationHistory = <<>>
    /\ mutHistoryNil = TRUE
    /\ mutHistoryMutex = 0
    /\ npc = <<>>
    /\ nloc = <<>>
    /\ neatPanic = FALSE
    /\ popSize = 0
    /\ neatGeneration = 1
    /\ mutated = {}
    /\ allocated = <<>>
    /\ handed = {}

\* ------------------------------------------------------- specifications

vars == <<batchVars, solverVars, neatVars, genomeVars, callVars>>

NextBatch ==
    \/ BatchReturn /\ UNCHANGED <<solverVars, neatVars, genomeVars, callVars>>
    \/ BatchPanic /\ UNCHANGED <<solverVars, neatVars, genomeVars, callVars>>

InitBatchOnly == InitBatch /\ SolverIdle /\ NeatIdle /\ GenomeIdle /\ CallIdle

SpecBatch == InitBatchOnly /\ [][NextBatch]_vars

Next ==
    \/ NewSolver /\ UNCHANGED <<batchVars, neatVars, genomeVars, callVars>>
    \/ SolveBegin /\ UNCHANGED <<batchVars, neatVars, genomeVars, callVars>>
    \/ SpawnFitness /\ UNCHANGED <<batchVars, neatVars, genomeVars, callVars>>
    \/ \E b \in Batches : DistanceStep(b) /\ UNCHANGED <<batchVars, neatVars, genomeVars, callVars>>
    \/ \E b \in Batches : FitnessCompute(b) /\ UNCHANGED <<batchVars, neatVars, genomeVars, callVars>>
    \/ \E b \in Batches : FitnessAdd(b) /\ UNCHANGED <<batchVars, neatVars, genomeVars, callVars>>
    \/ WaitFitness /\ UNCHANGED <<batchVars, neatVars, genomeVars, callVars>>
    \/ ReturnBest /\ UNCHANGED <<batchVars, neatVars, genomeVars, callVars>>
    \/ AssignSurvivalChances /\ UNCHANGED <<batchVars, neatVars, genomeVars, callVars>>
    \/ SpawnBreeders /\ UNCHANGED <<batchVars, neatVars, genomeVars, callVars>>
    \/ \E b \in Batches : BreedStep(b) /\ UNCHANGED <<batchVars, neatVars, genomeVars, callVars>>
    \/ Swap /\ UNCHANGED <<batchVars, neatVars, genomeVars, callVars>>

Init == InitSolver /\ BatchIdle /\ NeatIdle /\ GenomeIdle /\ CallIdle

Spec == Init /\ [][Next]_vars

NextNeat ==
    \/ AllocateRegistry /\ UNCHANGED <<batchVars, solverVars, genomeVars, callVars>>
    \/ \E g \in Genomes, s \in NodeIds, r \in NodeIds :
           AddConnectionBegin(g, s, r) /\ UNCHANGED <<batchVars, solverVars, genomeVars, callVars>>
    \/ \E g \in Genomes, k \in ConnIndices :
           AddNodeBegin(g, k) /\ UNCHANGED <<batchVars, solverVars, genomeVars, callVars>>
    \/ \E g \in Genomes : AddNodePanic(g) /\ UNCHANGED <<batchVars, solverVars, genomeVars, callVars>>
    \/ \E g \in Genomes : MutateWeights(g) /\ UNCHANGED <<batchVars, solverVars, genomeVars, callVars>>
    \/ \E g \in Genomes : Lock(g) /\ UNCHANGED <<batchVars, solverVars, genomeVars, callVars>>
    \/ \E g \in Genomes : Lookup(g) /\ UNCHANGED <<batchVars, solverVars, genomeVars, callVars>>
    \/ \E g \in Genomes : GetNewInnovationNumberInc(g) /\ UNCHANGED <<batchVars, solverVars, genomeVars, callVars>>
    \/ \E g \in Genomes : GetNewInnovationNumberRet(g) /\ UNCHANGED <<batchVars, solverVars, genomeVars, callVars>>
    \/ \E g \in Genomes : Insert(g) /\ UNCHANGED <<batchVars, solverVars, genomeVars, callVars>>
    \/ \E g \in Genomes : Unlock(g) /\ UNCHANGED <<batchVars, solverVars, genomeVars, callVars>>
    \/ NextGeneration /\ UNCHANGED <<batchVars, solverVars, genomeVars, callVars>>

InitNeatOnly == InitNeat /\ BatchIdle /\ SolverIdle /\ GenomeIdle /\ CallIdle

SpecNeat == InitNeatOnly /\ [][NextNeat]_vars

NextCrossover ==
    \/ NetworkCrossover /\ UNCHANGED <<batchVars, solverVars, neatVars, callVars>>

InitCrossoverOnly == InitCrossover /\ BatchIdle /\ SolverIdle /\ NeatIdle /\ CallIdle

SpecCrossover == InitCrossoverOnly /\ [][NextCrossover]_vars

NextNeatFitness ==
    \/ \E g \in Genomes : FitnessLen(g) /\ UNCHANGED <<batchVars, solverVars, genomeVars, callVars>>
    \/ \E g \in Genomes : ClearDelete(g) /\ UNCHANGED <<batchVars, solverVars, genomeVars, callVars>>
    \/ \E g \in Genomes : ClearReturn(g) /\ UNCHANGED <<batchVars, solverVars, genomeVars, callVars>>
    \/ \E g \in Genomes : ClearCrash(g) /\ UNCHANGED <<batchVars, solverVars, genomeVars, callVars>>
    \/ \E g \in Genomes : FitnessScoreSet(g) /\ UNCHANGED <<batchVars, solverVars, genomeVars, callVars>>

InitNeatFitnessOnly == InitNeatFitness /\ BatchIdle /\ SolverIdle /\ GenomeIdle /\ CallIdle

SpecNeatFitness == InitNeatFitnessOnly /\ [][NextNeatFitness]_vars

NextFeed ==
    \/ \E in \in FeedInputs : FeedBegin(in) /\ UNCHANGED <<batchVars, solverVars, neatVars, callVars>>
    \/ \E in \in FeedInputs : FeedPanic(in) /\ UNCHANGED <<batchVars, solverVars, neatVars, callVars>>
    \/ FeedForward /\ UNCHANGED <<batchVars, solverVars, neatVars, callVars>>
    \/ FeedReturn /\ UNCHANGED <<batchVars, solverVars, neatVars, callVars>>

InitFeedOnly == InitFeed /\ BatchIdle /\ SolverIdle /\ NeatIdle /\ CallIdle

SpecFeed == InitFeedOnly /\ [][NextFeed]_vars

NextPick ==
    \/ \E randValue \in RandValues :
           PickRandomMember(randValue) /\ UNCHANGED <<batchVars, neatVars, genomeVars>>

InitPickOnly == InitPick /\ CallIdle /\ BatchIdle /\ NeatIdle /\ GenomeIdle

SpecPick == InitPickOnly /\ [][NextPick]_vars

NextDistance ==
    \/ DistanceSelf /\ UNCHANGED <<batchVars, solverVars, neatVars>>
    \/ DistanceOther /\ UNCHANGED <<batchVars, solverVars, neatVars>>
    \/ ScoreAfterDistance /\ UNCHANGED <<batchVars, solverVars, neatVars>>

InitDistanceOnly == InitDistance /\ CallIdle /\ BatchIdle /\ SolverIdle /\ NeatIdle

SpecDistance == InitDistanceOnly /\ [][NextDistance]_vars

NextSequence ==
    \/ AllocateRegistry /\ UNCHANGED <<batchVars, solverVars, genomeVars, callVars>>
    \/ \E onGenome \in BOOLEAN : MutateCall(onGenome) /\ UNCHANGED <<batchVars, solverVars>>
    \/ DistanceSelf /\ UNCHANGED <<batchVars, solverVars, neatVars>>
    \/ DistanceOther /\ UNCHANGED <<batchVars, solverVars, neatVars>>
    \/ NetworkCrossover /\ UNCHANGED <<batchVars, solverVars, neatVars, callVars>>

InitSequenceOnly == InitSequence /\ CallIdle /\ BatchIdle /\ SolverIdle

SpecSequence == InitSequenceOnly /\ [][NextSequence]_vars

\* ---------------------------------------------------------------- C1
\* The indices covered by a list of ranges.
Covered(out) == {i \in 0..WordMax : \E k \in 1..Len(out) : out[k].Start <= i /\ i < out[k].End}

\* C1: for 1 <= nBatches <= max(nElements, 1) the ranges returned by
\* BuildBatchesList are contiguous from 0, pairwise non-overlapping, cover
\* exactly [0, nElements), and all have size nElements / nBatches except the
\* last, which also takes the remainder.
C1_BatchesPartition ==
    (bb_pc = "done" /\ 1 <= bb_nBatches /\ bb_nBatches <= Max2(bb_nElements, 1)) =>
        LET n == bb_nElements
            b == bb_nBatches
            len == Len(bb_out)
        IN  /\ len > 0 => bb_out[1].Start = 0
            /\ \A k \in 1..len : bb_out[k].Start <= bb_out[k].End
            /\ \A k \in 2..len : bb_out[k].Start = bb_out[k - 1].End
            /\ \A j, k \in 1..len :
                   j # k => \A i \in 0..WordMax :
                       ~(/\ bb_out[j].Start <= i /\ i < bb_out[j].End
                         /\ bb_out[k].Start <= i /\ i < bb_out[k].End)
            /\ Covered(bb_out) = 0..(n - 1)
            /\ \A k \in 1..(len - 1) : bb_out[k].End - bb_out[k].Start = n \div b
            /\ len > 0 => bb_out[len].End - bb_out[len].Start = (n \div b) + (n % b)

\* BuildBatchesList(10, 3) has returned [0,3), [3,6), [6,10).
C1_Witness ==
    /\ bb_pc = "done"
    /\ bb_nElements = 10
    /\ bb_nBatches = 3
    /\ bb_out = <<BatchInfo(0, 3), BatchInfo(3, 6), BatchInfo(6, 10)>>

\* ---------------------------------------------------------------- C2
\* C2: Solve performs exactly MaxGenerations loop iterations (one fitness
\* phase each) and then returns: it never starts more than MaxGenerations
\* iterations, for any configured value, 0 included.
C2_ExactlyMaxGenerations ==
    /\ iterations <= args.options.MaxGenerations
    /\ spc = "returned" => iterations = args.options.MaxGenerations

\* ---------------------------------------------------------------- C3
FitnessAt(i) == member[population[i]].fitness

\* C3: the member Solve returns is in the final population, no member of
\* that population has a higher fitness score, and every member at a lower
\* index has a strictly lower score.
C3_ReturnsFirstMaximum ==
    spc = "returned" =>
        \E k \in 1..Len(population) :
            /\ population[k] = returned
            /\ \A j \in 1..Len(population) : FitnessAt(j) <= FitnessAt(k)
            /\ \A j \in 1..(k - 1) : FitnessAt(j) < FitnessAt(k)

\* ---------------------------------------------------------------- C4
BadConfig ==
    \/ args.options.PopulationSize = 0
    \/ Len(args.members) # args.options.PopulationSize

\* C4: NewSolver panics, leaving no solver, exactly when PopulationSize is 0
\* or differs from the number of members supplied; otherwise the solver it
\* returns holds the supplied population and generation number 1.
C4_NewSolverChecks ==
    /\ spc = "panic" => (BadConfig /\ population = <<>> /\ generationNo = 0)
    /\ spc \notin {"new", "panic"} => ~BadConfig
    /\ spc = "constructed" => (population = args.members /\ generationNo = 1)

\* NewSolver has panicked on a non-empty size that the population misses.
C4_Witness ==
    /\ spc = "panic"
    /\ args.options.PopulationSize > 0
    /\ Len(args.members) # args.options.PopulationSize

\* ---------------------------------------------------------------- C5
PopFitness == [i \in 1..Len(population) |-> FitnessAt(i)]

PopChanceNum == [i \in 1..Len(population) |-> member[population[i]].chance.num]

\* C5: once the survival chances of a non-final generation are assigned,
\* if the population's total fitness is positive each chance is
\* fitness / total and the chances sum to 1; otherwise each chance is
\* 1 / PopulationSize.
C5_SurvivalChancesNormalised ==
    spc = "survived" =>
        LET total == SumSeq(PopFitness)
            d == member[population[1]].chance.den
        IN  IF total > 0
            THEN /\ \A i \in 1..Len(population) :
                        /\ member[population[i]].chance.den = d
                        /\ member[population[i]].chance.num * total = FitnessAt(i) * d
                 /\ SumSeq(PopChanceNum) = d
            ELSE \A i \in 1..Len(population) :
                     member[population[i]].chance.num * options.PopulationSize
                         = member[population[i]].chance.den

\* ---------------------------------------------------------------- C6
\* C6: in a breeding phase every slot of nextPopulation is written at most
\* once, only by the goroutine whose batch holds the slot, and once the
\* barrier is passed every slot has been written exactly once.
C6_SlotsWrittenOnce ==
    /\ \A slot \in 1..Len(writers) :
           /\ Len(writers[slot]) <= 1
           /\ \A k \in 1..Len(writers[slot]) :
                  LET b == writers[slot][k]
                  IN  batches[b].Start <= slot - 1 /\ slot - 1 < batches[b].End
    /\ (spc = "loop" /\ iterations >= 1) =>
           /\ Len(writers) = options.PopulationSize
           /\ \A slot \in 1..Len(writers) :
                  Len(writers[slot]) = 1 /\ nextPopulation[slot] # 0

\* A breeding barrier was passed by at least two goroutines.
C6_Witness ==
    /\ spc = "loop"
    /\ iterations >= 1
    /\ Len(batches) >= 2
    /\ \E s1, s2 \in 1..Len(writers) : writers[s1] # writers[s2]

\* ---------------------------------------------------------------- C7
\* C7: a solver's population always holds PopulationSize members, and the
\* population changes only by being replaced, whole, by the new buffer.
C7_PopulationSizeFixed ==
    /\ [](spc \notin {"new", "panic"} => Len(population) = options.PopulationSize)
    /\ [][(spc # "new" /\ population' # population) =>
              (spc = "wait2" /\ population' = nextPopulation)]_vars

\* The second generation's population has replaced the first's.
C7_Witness ==
    /\ spc = "loop"
    /\ generationNo = 2
    /\ Len(population) = options.PopulationSize
    /\ Len(population) >= 2
    /\ \A i \in 1..Len(population) : population[i] # args.members[i]

\* ---------------------------------------------------------------- C8

\* C8: in every genome obtained from NewNetwork by addConnection, addNode and
\* mutateWeights, every connection leads from a node to a node of a strictly
\* higher layer.
C8_LayersIncrease ==
    \A g \in DOMAIN nets :
        \A i \in 1..Len(nets[g].connections) :
            LET c == nets[g].connections[i]
            IN  /\ HasNode(nets[g], c.endpoints[1])
                /\ HasNode(nets[g], c.endpoints[2])
                /\ NodeAt(nets[g], c.endpoints[1]).layer < NodeAt(nets[g], c.endpoints[2]).layer

\* ---------------------------------------------------------------- C9

\* C9: every newly allocated innovation number is strictly greater than all
\* the numbers allocated before it, hence never allocated twice, whatever the
\* interleaving of the breeding workers and across registry clears.
C9_InnovationNumbersIncrease ==
    \A i \in 1..Len(allocated) : \A j \in 1..Len(allocated) :
        i < j => allocated[i] < allocated[j]

\* A worker holds new numbers in a later generation, after numbers were
\* allocated to others and the registry was cleared, while another worker
\* waits for the mutex.
C9_Witness ==
    /\ neatGeneration >= 2
    /\ \E g \in DOMAIN npc : \E h \in DOMAIN npc :
           /\ g # h
           /\ npc[g] = "insert"
           /\ npc[h] = "lock"
           /\ Len(allocated) > Len(nloc[g].got)

\* ---------------------------------------------------------------- C10

\* C10: within one generation, two genomes that perform the same structural
\* mutation with the same endpoints receive the same connection records, and
\* so the same innovation numbers, whatever other genomes did in between.
C10_SameMutationSameRecord ==
    \A h1 \in handed : \A h2 \in handed :
        (h1.op = h2.op /\ h1.ep1 = h2.ep1 /\ h1.ep2 = h2.ep2) => h1.conns = h2.conns

\* ---------------------------------------------------------------- C11

\* addNode has just split, in genome g, a connection whose sender is an
\* input node (layer 0).
SplitAtInputLayer(g) ==
    /\ npc[g] = "idle"
    /\ npc'[g] = "lock"
    /\ nloc'[g].op = addNodeType
    /\ NodeAt(nets[g], nloc'[g].ep1[1]).layer = 0

\* Such a split appends one node, on layer 1, and keeps every other node.
C11_NewNodeOnLayerOne ==
    [][\A g \in DOMAIN npc :
           SplitAtInputLayer(g) =>
               /\ Len(nets'[g].nodes) = Len(nets[g].nodes) + 1
               /\ nets'[g].nodes[Len(nets'[g].nodes)].layer = 1
               /\ \A i \in 1..Len(nets[g].nodes) : nets'[g].nodes[i] = nets[g].nodes[i]]_vars

\* Two genomes that split, in one generation, a connection leaving the same
\* input node into the same pair of connections hold the same two records.
C11_SameSplitSameNumbers ==
    \A h1 \in handed : \A h2 \in handed :
        (/\ h1.op = addNodeType
         /\ h2.op = addNodeType
         /\ h1.ep1[1] < nInputs
         /\ h1.ep1 = h2.ep1
         /\ h1.ep2 = h2.ep2) =>
            /\ Len(h1.conns) = 2
            /\ Len(h2.conns) = 2
            /\ h1.conns[1].innovationNo = h2.conns[1].innovationNo
            /\ h1.conns[2].innovationNo = h2.conns[2].innovationNo

\* C11: addNode on a connection whose sender is at layer 0 creates the new
\* node at layer 1 and changes no existing node's layer, and a second genome
\* performing the same split in the same generation receives the innovation
\* numbers the first genome received.
C11_SplitAtInputLayerShared ==
    /\ C11_NewNodeOnLayerOne
    /\ []C11_SameSplitSameNumbers

\* ---------------------------------------------------------------- C17

\* A fitness worker has started its first ComputeAndSetFitnessScore call.
FitnessStarted(b) == fitI[b] > batches[b].Start \/ fitStage[b] = "add"

\* Every distance worker of the generation has finished.
DistanceDone == \A b \in DOMAIN distI : distI[b] = batches[b].End

\* Every fitness worker of the generation has finished.
FitnessDone == \A b \in DOMAIN fitI : fitI[b] = batches[b].End

\* C17: the phases of a generation are separated by barriers: with
\* speciation no fitness call starts before every distance call has
\* returned, no survival chance is assigned before every fitness worker has
\* finished, no breeding worker starts before the survival chances are
\* assigned, and the next generation starts only when every breeding worker
\* has finished.
C17_PhasesSeparated ==
    /\ [](\A b \in DOMAIN fitI :
              (spc = "wait1" /\ options.Speciation /\ FitnessStarted(b)) => DistanceDone)
    /\ [][spc' = "survived" => (spc = "check" /\ DistanceDone /\ FitnessDone)]_vars
    /\ [][spc' = "wait2" => spc \in {"survived", "wait2"}]_vars
    /\ [][breedI' # breedI => spc \in {"survived", "wait2"}]_vars
    /\ [][(spc = "wait2" /\ spc' = "loop") =>
              \A b \in DOMAIN breedI : breedI[b] = batches[b].End]_vars

\* The three barriers the code does have.
C17_BarriersPresent ==
    /\ [][spc' = "survived" => (spc = "check" /\ DistanceDone /\ FitnessDone)]_vars
    /\ [][spc' = "wait2" => spc \in {"survived", "wait2"}]_vars
    /\ [][breedI' # breedI => spc \in {"survived", "wait2"}]_vars
    /\ [][(spc = "wait2" /\ spc' = "loop") =>
              \A b \in DOMAIN breedI : breedI[b] = batches[b].End]_vars

\* ---------------------------------------------------------------- C20

\* C20: the fitness sum read after the fitness barrier is the arithmetic sum
\* of the fitness scores of the population, whatever the interleaving of the
\* fitness workers and whatever the scores.
C20_FitnessSumExact ==
    spc = "check" => fitnessSum = SumSeq(PopFitness)

\* The sum read after the barrier is the arithmetic sum modulo 2^WordBits:
\* no increment is lost or counted twice.
C20_FitnessSumModular ==
    spc = "check" => fitnessSum = U32(SumSeq(PopFitness))

\* ---------------------------------------------------------------- C15

\* min(max(n, 1), p)
ClampedCount(n, p) == IF Max2(n, 1) < p THEN Max2(n, 1) ELSE p

\* The goroutines b of a phase, given by their loop indices, are one per
\* batch of the effective batch count, each on a non-empty range of its own.
OnePerBatch(idx) ==
    /\ DOMAIN idx = 1..options.NBatches
    /\ Len(batches) = options.NBatches
    /\ \A b \in DOMAIN idx : batches[b].Start < batches[b].End
    /\ \A b1 \in DOMAIN idx : \A b2 \in DOMAIN idx :
           b1 < b2 => batches[b1].End <= batches[b2].Start

\* C15: for every NBatches the effective batch count of a constructed solver
\* is min(max(NBatches, 1), PopulationSize), and every parallel phase of
\* every generation runs that many goroutines, one per batch range: at
\* least 1 and at most PopulationSize.
C15_BatchCountClamped ==
    /\ spc \notin {"new", "panic"} =>
           /\ options.NBatches = ClampedCount(args.options.NBatches, options.PopulationSize)
           /\ 1 <= options.NBatches
           /\ options.NBatches <= options.PopulationSize
    /\ spc = "wait1" => (OnePerBatch(fitI) /\ (options.Speciation => OnePerBatch(distI)))
    /\ spc = "wait2" => OnePerBatch(breedI)

\* A breeding phase runs with more batches asked for than there are members.
C15_Witness ==
    /\ spc = "wait2"
    /\ args.options.NBatches > options.PopulationSize
    /\ options.PopulationSize >= 2
    /\ Len(breedI) = options.PopulationSize
    /\ \E b \in DOMAIN breedI : breedI[b] > batches[b].Start

\* ---------------------------------------------------------------- C14

\* Every member of the current population had one fitness call.
EachFitnessOnce ==
    /\ DOMAIN calls.fitness = 1..options.PopulationSize
    /\ \A i \in DOMAIN calls.fitness : calls.fitness[i] = 1

\* C14: in a run with MaxGenerations >= 1, ComputeAndSetFitnessScore is
\* called exactly once on each member of each generation, Crossover is
\* called exactly PopulationSize times in each generation but the last and
\* never in the last; a run of one member and one generation returns that
\* member after one fitness call, without Crossover, Mutate (not even the
\* draw that decides on it) or SetSurvivalChance.
C14_CallCounts ==
    (args.options.MaxGenerations >= 1 /\ spc \notin {"new", "panic", "constructed"}) =>
        /\ \A i \in DOMAIN calls.fitness : calls.fitness[i] <= 1
        /\ spc \in {"check", "survived", "wait2", "returned"} => EachFitnessOnce
        /\ calls.crossover <= options.PopulationSize
        /\ spc \in {"survived", "wait2"} => generationNo < options.MaxGenerations
        /\ (spc = "loop" /\ iterations >= 1) =>
               /\ EachFitnessOnce
               /\ calls.crossover = options.PopulationSize
               /\ calls.chance = options.PopulationSize
               /\ generationNo = iterations + 1
               /\ generationNo <= options.MaxGenerations
        /\ spc = "returned" =>
               /\ iterations = options.MaxGenerations
               /\ calls.crossover = 0
               /\ calls.chance = 0
               /\ calls.mutateDraws = 0
        /\ (spc = "returned" /\ options.PopulationSize = 1 /\ options.MaxGenerations = 1) =>
               /\ returned = args.members[1]
               /\ calls.fitness = <<1>>
               /\ iterations = 1

\* A run of two generations has returned: the first generation bred a
\* whole population, the second only computed the fitness of its members.
C14_Witness ==
    /\ spc = "returned"
    /\ options.MaxGenerations = 2
    /\ options.PopulationSize >= 2
    /\ iterations = 2
    /\ EachFitnessOnce
    /\ calls.crossover = 0
    /\ \A i \in 1..Len(population) : population[i] # args.members[i]

\* ---------------------------------------------------------------- C18

\* C18: a goroutine of the distance or fitness phase writes only members at
\* indices of its own batch range, and a breeding goroutine writes only the
\* children it breeds, never a member of the current population.
C18_WorkersWriteOwnGenomes ==
    /\ spc = "wait1" =>
           \A w \in writes :
               /\ w.phase \in {"distance", "fitness"}
               /\ w.whose = "own"
    /\ spc = "wait2" =>
           \A w \in writes :
               /\ w.phase = "breeding"
               /\ w.whose = "child"

\* The fitness goroutines, taken alone, write only their own members.
C18_FitnessWritesOwn ==
    spc = "wait1" =>
        \A w \in writes : w.phase = "fitness" => w.whose = "own"

\* ---------------------------------------------------------------- C12

\* A call of Crossover returns.
CrossoverReturns == newNetwork = NoNetwork /\ newNetwork' # NoNetwork

\* C12: Crossover leaves both parents as they were (nodes, connections in
\* their order, fitness, survival chance, similar count, sorted flag) and
\* returns a Network that is neither of them.
C12_CrossoverKeepsParents ==
    [][CrossoverReturns =>
           /\ genome' = genome
           /\ otherNetwork' = otherNetwork
           /\ newNetwork' # genome'
           /\ newNetwork' # otherNetwork']_vars

\* What Crossover does keep of a parent: everything but the order of the
\* connections and the sorted flag, and all of a parent flagged sorted.
KeptBySort(before, after) ==
    /\ [after EXCEPT !.connections = <<>>, !.sorted = FALSE]
           = [before EXCEPT !.connections = <<>>, !.sorted = FALSE]
    /\ after.connections \in SortFunc(before.connections)
    /\ before.sorted => after = before

C12_CrossoverSortsParents ==
    [][CrossoverReturns =>
           /\ KeptBySort(genome, genome')
           /\ KeptBySort(otherNetwork, otherNetwork')]_vars

\* ---------------------------------------------------------------- C13

\* C13: the child of Crossover has the nodes of the dominant parent (the
\* receiver): the same identifiers, layers and activations, hidden nodes
\* included.
C13_ChildHasParentNodes ==
    newNetwork # NoNetwork => newNetwork.nodes = genome.nodes

\* The child has the input and output nodes of the dominant parent only.
C13_ChildHasInputsAndOutputs ==
    newNetwork # NoNetwork =>
        newNetwork.nodes = SubSeq(genome.nodes, 1, genome.nInputs + genome.nOutputs)

\* ---------------------------------------------------------------- C16

\* C16: Feed leaves the genome as it was, and two calls of Feed with the
\* same input on a genome of the same nodes, connections and weights return
\* the same output.
C16_FeedPureAndDeterministic ==
    /\ [][(gpc # "none") => genome' = genome]_vars
    /\ [](\A i \in DOMAIN outputs : \A j \in DOMAIN outputs :
              (/\ outputs[i].input = outputs[j].input
               /\ outputs[i].net.nodes = outputs[j].net.nodes
               /\ outputs[i].net.connections = outputs[j].net.connections) =>
                  outputs[i].output = outputs[j].output)
    /\ [](\A i \in DOMAIN outputs : outputs[i].net = genome)

\* Feed returned twice for one input on a genome with a hidden node and two
\* connections through it, with an output that depends on the input.
C16_Witness ==
    /\ Len(outputs) = 2
    /\ outputs[1].input = outputs[2].input
    /\ outputs[1].output = outputs[2].output
    /\ Len(genome.nodes) > genome.nInputs + genome.nOutputs
    /\ Len(genome.connections) = 2
    /\ genome.connections[1].endpoints[2] = genome.connections[2].endpoints[1]
    /\ outputs[1].output # Output(genome, NewAccumulators(genome, <<>>))

\* ---------------------------------------------------------------- C19

\* The places of the code where a goroutine reads or writes the registry or
\* the innovation counter: the lookup, the allocation of a number and the
\* insert of addConnection and addNode, the len and the clear of
\* ComputeAndSetFitnessScore.
AtRegistry(g) == npc[g] \in {"lookup", "inc", "ret", "insert", "clear"}

\* C19: a goroutine that accesses the registry or the counter holds the
\* mutex, so no two goroutines access them at the same time.
C19_RegistryUnderMutex ==
    /\ [](\A g \in DOMAIN npc : AtRegistry(g) => mutHistoryMutex = g)
    /\ [](\A g \in DOMAIN npc : \A h \in DOMAIN npc :
              (AtRegistry(g) /\ AtRegistry(h)) => g = h)
    /\ [][mutationHistory' # mutationHistory =>
              mutHistoryMutex \in DOMAIN npc]_vars
    /\ [][(\E g \in DOMAIN npc : npc[g] = "idle" /\ npc'[g] \in {"clear", "score"}) =>
              mutHistoryMutex \in DOMAIN npc]_vars

\* The accesses addConnection and addNode make are inside the mutex section.
C19_MutationsUnderMutex ==
    /\ \A g \in DOMAIN npc :
           npc[g] \in {"lookup", "inc", "ret", "insert"} => mutHistoryMutex = g
    /\ \A g \in DOMAIN npc : \A h \in DOMAIN npc :
           (npc[g] \in {"lookup", "inc", "ret", "insert"}
                /\ npc[h] \in {"lookup", "inc", "ret", "insert"}) => g = h

\* ---------------------------------------------------------------- C21
\* The sum of the survival chances of population[1..k], in units.
RECURSIVE ChanceSum(_)
ChanceSum(k) == IF k = 0 THEN 0 ELSE ChanceSum(k - 1) + member[population[k]].chance.num

\* The positions k with randValue less than the chances of population[1..k].
CumulativeIndices(randValue) == {k \in 1..Len(population) : randValue < ChanceSum(k)}

\* C21: pickRandomMember returns the genome at the smallest position whose
\* cumulative survival chance exceeds the draw, and when the survival chances
\* sum to 1 the return after the loop is not taken and the genome returned
\* has a survival chance above 0.
C21_PickFollowsCumulativeChances ==
    pick # NoPick =>
        /\ CumulativeIndices(pick.randValue) # {} =>
               \E k \in CumulativeIndices(pick.randValue) :
                   /\ pick.member = population[k]
                   /\ \A l \in CumulativeIndices(pick.randValue) : k <= l
        /\ ChanceSum(Len(population)) = One =>
               /\ ~pick.fallback
               /\ member[pick.member].chance.num > 0

\* The loop runs out although the survival chances sum to 1, and the last
\* genome, whose survival chance is 0, is returned.
C21_FallbackReturnsZeroChance ==
    /\ pick # NoPick
    /\ pick.fallback
    /\ ChanceSum(Len(population)) = One
    /\ member[pick.member].chance.num = 0

\* The loop returns a genome past the smallest cumulative position.
C21_PickPastCumulativeIndex ==
    /\ pick # NoPick
    /\ ~pick.fallback
    /\ \E k \in CumulativeIndices(pick.randValue) : population[k] # pick.member /\ k < pick.member

\* ---------------------------------------------------------------- C26
\* C26: no Mutate call aborts the run: on every genome of a run, one without
\* connections and the registry as declared included, Mutate applies one
\* operator or returns without a change.
C26_MutateNeverAborts == ~neatPanic

\* addNode aborts on a genome that has no connection, the registry untouched.
C26_AddNodeAbortsWithoutConnections ==
    /\ neatPanic
    /\ mutHistoryNil
    /\ innovationNoTracker = 0
    /\ \E g \in mutated : Len(nets[g].connections) = 0

\* addConnection aborts at its first registry write, the map being nil.
C26_AddConnectionAbortsOnNilMap ==
    /\ neatPanic
    /\ mutHistoryNil
    /\ \E g \in mutated : Len(nets[g].connections) > 0

\* ---------------------------------------------------------------- C24
LongerLen == IF Len(genome.connections) >= Len(otherNetwork.connections)
             THEN Len(genome.connections) ELSE Len(otherNetwork.connections)

ShorterLen == IF Len(genome.connections) >= Len(otherNetwork.connections)
              THEN Len(otherNetwork.connections) ELSE Len(genome.connections)

\* C24: genome.Distance(otherNetwork) compares every position of the two
\* sorted lists up to the length of the longer one: M + D + E is that length,
\* E the difference of the lengths and M the number of positions of the
\* shorter list at which the innovation numbers are equal.
C24_DistanceExaminesEveryPosition ==
    gpc = "measured" =>
        /\ dist.M + dist.D + dist.E = LongerLen
        /\ dist.E = LongerLen - ShorterLen
        /\ dist.M = Cardinality({i \in 1..ShorterLen :
                         genome.connections[i].innovationNo
                             = otherNetwork.connections[i].innovationNo})

\* A genome of two connections is compared with one of none: one position
\* is counted.
C24_OnlyFirstPositionCounted ==
    /\ gpc = "measured"
    /\ Len(genome.connections) = 2
    /\ Len(otherNetwork.connections) = 0
    /\ dist.E = 1
    /\ dist.M + dist.D = 0

\* ---------------------------------------------------------------- C22
\* C22: with speciation, whenever ComputeAndSetFitnessScore has divided by
\* the similar count of a genome, the count was at least 1.
C22_SimilarCountPositive == gpc = "scored" => genome.nSimilar >= 1

\* A genome without connections, as NewNetwork makes it, has been compared
\* with itself and with the other genome and is scored with a count of 0.
C22_FreshGenomeNotSimilarToItself ==
    /\ gpc = "scored"
    /\ Len(genome.connections) = 0
    /\ genome.nSimilar = 0

\* ---------------------------------------------------------------- C25
\* Both endpoints of every connection of net are identifiers of its nodes.
EndpointsAreNodes(net) ==
    \A k \in 1..Len(net.connections) :
        /\ HasNode(net, net.connections[k].endpoints[1])
        /\ HasNode(net, net.connections[k].endpoints[2])

\* C25: in the parents the mutations have grown and in the child Crossover
\* returns, both endpoints of every connection are nodes of the genome, so
\* that Feed indexes nodes and accumulators within the node list.
C25_EndpointsAreNodes ==
    \A net \in {genome, otherNetwork, newNetwork} : EndpointsAreNodes(net)

\* The child inherited a connection of a hidden node it does not have, and
\* Feed on it indexes outside its node list.
C25_ChildFeedIndexesOutside ==
    /\ newNetwork # NoNetwork
    /\ EndpointsAreNodes(genome)
    /\ EndpointsAreNodes(otherNetwork)
    /\ ~EndpointsAreNodes(newNetwork)
    /\ FeedPanics(newNetwork)

\* ---------------------------------------------------------------- C27
\* No two connections of net have the same endpoints or the same
\* innovation number.
NoDuplicates(net) ==
    \A i \in 1..Len(net.connections) : \A j \in 1..Len(net.connections) :
        i # j =>
            /\ net.connections[i].endpoints # net.connections[j].endpoints
            /\ net.connections[i].innovationNo # net.connections[j].innovationNo

\* The connections of net and other come from one registry: the same
\* endpoints under the same innovation number and no others.
OneRegistry(net, other) ==
    \A i \in 1..Len(net.connections) : \A j \in 1..Len(other.connections) :
        net.connections[i].endpoints = other.connections[j].endpoints
            <=> net.connections[i].innovationNo = other.connections[j].innovationNo

\* C27: the child Crossover makes of two genomes grown by mutations, neither
\* of which has two connections of the same endpoints or innovation number,
\* has no two such connections either.
C27_NoDuplicateConnections ==
    (/\ newNetwork # NoNetwork
     /\ NoDuplicates(genome)
     /\ NoDuplicates(otherNetwork)
     /\ OneRegistry(genome, otherNetwork)) => NoDuplicates(newNetwork)

\* The child took one connection from the other parent at one position and
\* from the dominant parent at the next.
C27_ChildHasConnectionTwice ==
    /\ newNetwork # NoNetwork
    /\ NoDuplicates(genome)
    /\ NoDuplicates(otherNetwork)
    /\ OneRegistry(genome, otherNetwork)
    /\ Len(newNetwork.connections) = 2
    /\ newNetwork.connections[1] = newNetwork.connections[2]
    /\ newNetwork.connections[1] = otherNetwork.connections[1]
    /\ newNetwork.connections[2] = genome.connections[2]

\* ---------------------------------------------------------------- C23
\* C23: after any sequence of Mutate, Distance and Crossover calls, a genome
\* whose sorted flag is set has its connections in non-decreasing order of
\* innovation number.
C23_SortedFlagMeansInOrder ==
    ~neatPanic =>
        \A net \in {genome, otherNetwork, newNetwork} : net.sorted => InOrder(net.connections)

\* Every call that appends a connection to a genome leaves its flag clear.
C23_AppendClearsFlag ==
    [][\A onGenome \in BOOLEAN : MutateCall(onGenome) =>
           /\ Len(genome'.connections) > Len(genome.connections) => ~genome'.sorted
           /\ Len(otherNetwork'.connections) > Len(otherNetwork.connections)
                  => ~otherNetwork'.sorted]_vars

\* A genome flagged by Distance was given a connection the other genome had
\* recorded before the genome's last one.
C23_FlaggedOutOfOrder ==
    /\ ~neatPanic
    /\ genome.sorted
    /\ ~InOrder(genome.connections)
    /\ dist # NoDistance

====
